---- MODULE Spec2Model ----
(***************************************************************************)
(* Model of the repository graph analyser (analyzeRepositoryGraph and its  *)
(* helpers) and of the LLM relationship normaliser.                        *)
(*                                                                         *)
(* Strings are TLA+ strings; TLC evaluates Len, \o, SubSeq on them, so the *)
(* string operations of the source (startsWith, slice, join, normalize)    *)
(* are computed character by character.  A JavaScript `undefined` is the   *)
(* value Undefined.  A JavaScript Map is a sequence of entries in          *)
(* insertion order, each entry carrying its key.                           *)
(***************************************************************************)
EXTENDS Integers, Sequences, FiniteSets, TLC

Undefined == "<undefined>"

(* JavaScript truthiness of an optional string *)
Truthy(v) == v # Undefined /\ v # ""

Min(a, b) == IF a < b THEN a ELSE b
Max(a, b) == IF a > b THEN a ELSE b

Range(s) == UNION {{seq[i] : i \in 1..Len(seq)} : seq \in {s}}

(* F applied to the value of x, which is computed once *)
With(x, F(_)) == CHOOSE r \in {F(v) : v \in {x}} : TRUE
With2(x, y, F(_, _)) == CHOOSE r \in {F(v, w) : v \in {x}, w \in {y}} : TRUE

(***************************************************************************)
(* String primitives                                                       *)
(***************************************************************************)
Char(s, i) == SubSeq(s, i, i)

StartsWith(s, p) ==
  \E str \in {s}, prefix \in {p} : Len(prefix) <= Len(str) /\ SubSeq(str, 1, Len(prefix)) = prefix

(* String.prototype.slice(start, end): 0-based, end exclusive, a negative  *)
(* end counts from the end of the string                                   *)
Slice(s, start, end) ==
  With(<<s, start, end>>, LAMBDA a :
    With2(IF a[3] < 0 THEN Max(Len(a[1]) + a[3], 0) ELSE Min(a[3], Len(a[1])), Min(a[2], Len(a[1])),
          LAMBDA e, b : IF e <= b THEN "" ELSE SubSeq(a[1], b + 1, e)))

(* String.prototype.includes *)
Includes(s, sub) ==
  \E str \in {s}, part \in {sub} : \E i \in 1..(Len(str) + 1) : StartsWith(SubSeq(str, i, Len(str)), part)

LowerMap == [c \in {"A","B","C","D","E","F","G","H","I","J","K","L","M","N","O","P","Q","R","S","T","U","V","W","X","Y","Z"} |->
  CASE c = "A" -> "a" [] c = "B" -> "b" [] c = "C" -> "c" [] c = "D" -> "d"
    [] c = "E" -> "e" [] c = "F" -> "f" [] c = "G" -> "g" [] c = "H" -> "h"
    [] c = "I" -> "i" [] c = "J" -> "j" [] c = "K" -> "k" [] c = "L" -> "l"
    [] c = "M" -> "m" [] c = "N" -> "n" [] c = "O" -> "o" [] c = "P" -> "p"
    [] c = "Q" -> "q" [] c = "R" -> "r" [] c = "S" -> "s" [] c = "T" -> "t"
    [] c = "U" -> "u" [] c = "V" -> "v" [] c = "W" -> "w" [] c = "X" -> "x"
    [] c = "Y" -> "y" [] c = "Z" -> "z"]

RECURSIVE ToLowerCase(_)
ToLowerCase(s) ==
  With(s, LAMBDA str :
    IF Len(str) = 0 THEN ""
    ELSE With(Char(str, 1), LAMBDA c :
           (IF c \in DOMAIN LowerMap THEN LowerMap[c] ELSE c) \o ToLowerCase(SubSeq(str, 2, Len(str)))))

(* base.replace(/\\/g, '/') *)
RECURSIVE ReplaceBackslash(_)
ReplaceBackslash(s) ==
  With(s, LAMBDA str :
    IF Len(str) = 0 THEN ""
    ELSE (IF Char(str, 1) = "\\" THEN "/" ELSE Char(str, 1)) \o ReplaceBackslash(SubSeq(str, 2, Len(str))))

(* the segments of s between "/" separators, as a sequence of strings *)
RECURSIVE SplitSlash(_)
SplitSlash(s) ==
  With(s, LAMBDA str :
    IF \A i \in 1..Len(str) : Char(str, i) # "/" THEN <<str>>
    ELSE With(CHOOSE k \in 1..Len(str) : Char(str, k) = "/" /\ \A j \in 1..(k - 1) : Char(str, j) # "/",
              LAMBDA i : <<SubSeq(str, 1, i - 1)>> \o SplitSlash(SubSeq(str, i + 1, Len(str)))))

RECURSIVE JoinSlash(_)
JoinSlash(segs) ==
  With(segs, LAMBDA items :
    IF Len(items) = 0 THEN ""
    ELSE IF Len(items) = 1 THEN items[1]
    ELSE items[1] \o "/" \o JoinSlash(Tail(items)))

(***************************************************************************)
(* path.posix (Node.js), as used by the resolver                           *)
(***************************************************************************)
RECURSIVE normalizeString(_, _, _)
normalizeString(segs, res, allowAboveRoot) ==
  IF Len(segs) = 0 THEN res
  ELSE With(<<Head(segs), Tail(segs)>>, LAMBDA ht :
       LET s == ht[1]
           rest == ht[2]
       IN With(IF s = "" \/ s = "." THEN res
               ELSE IF s = ".."
                 THEN IF Len(res) > 0 /\ res[Len(res)] # ".."
                        THEN SubSeq(res, 1, Len(res) - 1)
                      ELSE IF allowAboveRoot THEN Append(res, "..")
                      ELSE res
               ELSE Append(res, s),
               LAMBDA next : normalizeString(rest, next, allowAboveRoot)))

posixNormalize(p) ==
  With(p, LAMBDA path :
    IF Len(path) = 0 THEN "."
    ELSE LET isAbsolute == Char(path, 1) = "/"
             trailingSeparator == Char(path, Len(path)) = "/"
         IN With(JoinSlash(normalizeString(SplitSlash(path), <<>>, ~isAbsolute)),
                 LAMBDA body :
                   IF Len(body) = 0
                     THEN (IF isAbsolute THEN "/" ELSE IF trailingSeparator THEN "./" ELSE ".")
                   ELSE (IF isAbsolute THEN "/" ELSE "")
                          \o body \o (IF trailingSeparator THEN "/" ELSE "")))

(* path.posix.join(a, b): empty arguments are skipped *)
posixJoin(a, b) ==
  With2(a, b, LAMBDA first, second :
    IF Len(first) = 0 /\ Len(second) = 0 THEN "."
    ELSE posixNormalize(IF Len(first) = 0 THEN second
                        ELSE IF Len(second) = 0 THEN first
                        ELSE first \o "/" \o second))

(* path.posix.dirname for a path without trailing separator *)
posixDirname(p) ==
  With(p, LAMBDA path :
    IF Len(path) = 0 THEN "."
    ELSE With({i \in 1..Len(path) : Char(path, i) = "/"}, LAMBDA slashes :
           IF slashes = {} THEN "."
           ELSE With(CHOOSE i \in slashes : \A j \in slashes : j <= i, LAMBDA last :
                  IF last = 1 THEN "/" ELSE SubSeq(path, 1, last - 1))))

(* path.posix.basename *)
posixBasename(p) == With(SplitSlash(p), LAMBDA segs : segs[Len(segs)])

(* path.extname(...).toLowerCase(): from the last "." of the base name,    *)
(* empty when there is none or the name starts with its only "."           *)
extname(p) ==
  With(posixBasename(p), LAMBDA base :
    With({i \in 1..Len(base) : Char(base, i) = "."}, LAMBDA dots :
      IF dots = {} THEN ""
      ELSE With(CHOOSE i \in dots : \A j \in dots : j <= i, LAMBDA last :
             IF last = 1 THEN "" ELSE ToLowerCase(SubSeq(base, last, Len(base))))))

(***************************************************************************)
(* Module resolver                                                         *)
(***************************************************************************)
SUPPORTED_EXTENSIONS == <<".ts", ".tsx", ".js", ".jsx", ".mjs", ".cjs">>
IMPORT_EXTENSIONS == <<".ts", ".tsx", ".js", ".jsx", ".mjs", ".cjs", ".json">>
INDEX_FILES == [i \in 1..Len(IMPORT_EXTENSIONS) |-> "/index" \o IMPORT_EXTENSIONS[i]]

(* Map helpers: a Map is a sequence of [key, value] entries *)
MapHas(m, k) == \E map \in {m}, key \in {k} : \E i \in 1..Len(map) : map[i].key = key
MapIndex(m, k) == With2(m, k, LAMBDA map, key : CHOOSE i \in 1..Len(map) : map[i].key = key)
MapGet(m, k) ==
  With2(m, k, LAMBDA map, key : IF MapHas(map, key) THEN map[MapIndex(map, key)].value ELSE Undefined)
MapSet(m, k, v) ==
  With2(m, [key |-> k, value |-> v],
        LAMBDA map, entry :
          IF MapHas(map, entry.key)
            THEN [map EXCEPT ![MapIndex(map, entry.key)] = entry]
            ELSE Append(map, entry))
MapKeys(m) == [i \in 1..Len(m) |-> m[i].key]
MapValues(m) == [i \in 1..Len(m) |-> m[i].value]

(* candidates with the index files probed before the extensions *)
candidates_indexFirst(normBase) ==
  <<normBase>>
    \o [i \in 1..Len(INDEX_FILES) |-> normBase \o INDEX_FILES[i]]
    \o [i \in 1..Len(IMPORT_EXTENSIONS) |-> normBase \o IMPORT_EXTENSIONS[i]]

(* the ordered candidate list of tryCandidates *)
candidates(normBase) ==
  <<normBase>>
    \o [i \in 1..Len(IMPORT_EXTENSIONS) |-> normBase \o IMPORT_EXTENSIONS[i]]
    \o [i \in 1..Len(INDEX_FILES) |-> normBase \o INDEX_FILES[i]]

(* the first element of the sequence cs that is in fileSet, or Undefined *)
FirstIn(cs, fileSet) ==
  With2(cs, fileSet, LAMBDA list, set :
    IF \E i \in 1..Len(list) : list[i] \in set
      THEN list[CHOOSE i \in 1..Len(list) : list[i] \in set /\ \A j \in 1..(i - 1) : list[j] \notin set]
      ELSE Undefined)

(* tryCandidates: returns the result and the updated candidateCache *)
(* the memo read without regard to the base it was stored under *)
tryCandidates_anyKey(cache, fileSet, base) ==
  With(ReplaceBackslash(base),
       LAMBDA normBase :
         IF Len(cache) > 0
           THEN [res |-> cache[1].value, cache |-> cache]
           ELSE With(FirstIn(candidates(normBase), fileSet),
                     LAMBDA hit : [res |-> hit, cache |-> MapSet(cache, normBase, hit)]))

tryCandidates(cache, fileSet, base) ==
  With(ReplaceBackslash(base),
       LAMBDA normBase :
         IF MapHas(cache, normBase)
           THEN [res |-> MapGet(cache, normBase), cache |-> cache]
           ELSE With(FirstIn(candidates(normBase), fileSet),
                     LAMBDA hit : [res |-> hit, cache |-> MapSet(cache, normBase, hit)]))

(* the remainder of the specifier matched by an alias entry's wildcard *)
aliasRemainder(entry, specifier) ==
  IF Len(entry.prefix) = Len(specifier)
    THEN Slice(specifier, Len(entry.prefix), Len(specifier))
    ELSE Slice(specifier, Len(entry.prefix), Len(specifier) - Len(entry.suffix))

(* the inner loop over entry.targets *)
RECURSIVE tryTargets(_, _, _, _)
tryTargets(cache, fileSet, targets, remainder) ==
  IF Len(targets) = 0 THEN [res |-> Undefined, cache |-> cache]
  ELSE With(tryCandidates(cache, fileSet, posixNormalize(posixJoin(Head(targets), remainder))),
            LAMBDA r : IF r.res # Undefined THEN r
                       ELSE tryTargets(r.cache, fileSet, Tail(targets), remainder))

(* the loop over the tsconfig path entries *)
RECURSIVE tryAliases(_, _, _, _)
tryAliases(cache, fileSet, paths, specifier) ==
  IF Len(paths) = 0 THEN [res |-> Undefined, cache |-> cache]
  ELSE LET entry == Head(paths)
       IN IF ~StartsWith(specifier, entry.prefix)
            THEN tryAliases(cache, fileSet, Tail(paths), specifier)
            ELSE With(tryTargets(cache, fileSet, entry.targets, aliasRemainder(entry, specifier)),
                      LAMBDA r : IF r.res # Undefined THEN r
                                 ELSE tryAliases(r.cache, fileSet, Tail(paths), specifier))

(* the resolver with the src/ fallback tried before the repository root *)
resolver_srcFirst(cache, fileSet, paths, fromPath, specifier) ==
  IF specifier = "" THEN [res |-> Undefined, cache |-> cache]
  ELSE LET fromDir == posixDirname(fromPath)
       IN IF StartsWith(specifier, ".")
            THEN tryCandidates(cache, fileSet, posixNormalize(posixJoin(fromDir, specifier)))
            ELSE With(tryAliases(cache, fileSet, paths, specifier),
                      LAMBDA a :
                        IF a.res # Undefined THEN a
                        ELSE With(tryCandidates(a.cache, fileSet, posixJoin("src", specifier)),
                                  LAMBDA src :
                                    IF src.res # Undefined THEN src
                                    ELSE tryCandidates(src.cache, fileSet, posixJoin(".", specifier))))

(* the resolver returned by createModuleResolver *)
resolver(cache, fileSet, paths, fromPath, specifier) ==
  IF specifier = "" THEN [res |-> Undefined, cache |-> cache]
  ELSE LET fromDir == posixDirname(fromPath)
       IN IF StartsWith(specifier, ".")
            THEN tryCandidates(cache, fileSet, posixNormalize(posixJoin(fromDir, specifier)))
            ELSE With(tryAliases(cache, fileSet, paths, specifier),
                      LAMBDA a :
                        IF a.res # Undefined THEN a
                        ELSE With(tryCandidates(a.cache, fileSet, posixJoin(".", specifier)),
                                  LAMBDA abs :
                                    IF abs.res # Undefined THEN abs
                                    ELSE tryCandidates(abs.cache, fileSet, posixJoin("src", specifier))))

(***************************************************************************)
(* Abstract syntax trees.  A parsed file is the sequence of its AST nodes  *)
(* in traversal (source) order; `parent` is the index of the parent node,  *)
(* 0 for the Program.  `declaration` is the index of a child node (the     *)
(* declaration of an export, the init of a declarator) or 0 when absent;   *)
(* `locals` are the names bound in a function's own scope.                 *)
(***************************************************************************)
Node(type, parent, name, declaration, locals) ==
  [type |-> type, parent |-> parent, name |-> name, declaration |-> declaration,
   locals |-> locals, source |-> "", specifiers |-> <<>>]

ImportDeclaration(source, specifiers) ==
  [Node("ImportDeclaration", 0, Undefined, 0, {}) EXCEPT !.source = source, !.specifiers = specifiers]
ImportSpecifier(local, imported) == [type |-> "ImportSpecifier", local |-> local, imported |-> imported]
ImportDefaultSpecifier(local) == [type |-> "ImportDefaultSpecifier", local |-> local, imported |-> "default"]
ImportNamespaceSpecifier(local) == [type |-> "ImportNamespaceSpecifier", local |-> local, imported |-> "*"]
ExportNamedDeclaration(declaration, specifiers) ==
  [Node("ExportNamedDeclaration", 0, Undefined, declaration, {}) EXCEPT !.specifiers = specifiers]
ExportSpecifier(local, exported) == [type |-> "ExportSpecifier", local |-> local, exported |-> exported]
ExportDefaultDeclaration(declaration, identifier) == Node("ExportDefaultDeclaration", 0, identifier, declaration, {})
FunctionDeclaration(parent, id, locals) == Node("FunctionDeclaration", parent, id, 0, locals)
VariableDeclaration(parent) == Node("VariableDeclaration", parent, Undefined, 0, {})
VariableDeclarator(parent, id, init) == Node("VariableDeclarator", parent, id, init, {})
AssignmentExpression(parent, left) == Node("AssignmentExpression", parent, left, 0, {})
ArrowFunctionExpression(parent, locals) == Node("ArrowFunctionExpression", parent, Undefined, 0, locals)
FunctionExpression(parent, id, locals) == Node("FunctionExpression", parent, id, 0, locals)
ClassDeclaration(parent, id) == Node("ClassDeclaration", parent, id, 0, {})
ClassMethod(parent, key, locals) == Node("ClassMethod", parent, key, 0, locals)
CallExpression(parent, callee) == Node("CallExpression", parent, callee, 0, {})

FunctionTypes == {"FunctionDeclaration", "FunctionExpression", "ArrowFunctionExpression", "ClassMethod"}

(* path.findParent(pred): the nearest proper ancestor whose type is in     *)
(* types, or 0                                                             *)
RECURSIVE findParent(_, _, _)
findParent(ast, i, types) ==
  LET p == ast[i].parent
  IN IF p = 0 THEN 0
     ELSE IF ast[p].type \in types THEN p
     ELSE findParent(ast, p, types)

getFunctionParent(ast, i) == findParent(ast, i, FunctionTypes)

(* the names an import declaration binds in the Program scope *)
ImportLocals(ast) ==
  UNION {{ast[i].specifiers[k].local : k \in 1..Len(ast[i].specifiers)} :
           i \in {j \in 1..Len(ast) : ast[j].type = "ImportDeclaration"}}

(* the top-level declarations (function, class, variable) binding `name` *)
ProgramDeclarations(ast, name) ==
  {i \in 1..Len(ast) :
     /\ ast[i].name = name
     /\ \/ /\ ast[i].type \in {"FunctionDeclaration", "ClassDeclaration"}
           /\ findParent(ast, i, FunctionTypes \cup {"ClassDeclaration"}) = 0
        \/ /\ ast[i].type = "VariableDeclarator"
           /\ findParent(ast, i, FunctionTypes) = 0}

(* path.scope.getBinding(name).kind seen from node i: "local" when an      *)
(* enclosing function scope binds the name, "module" when an import does,  *)
(* "hoisted" for a top-level declaration, Undefined when unbound           *)
RECURSIVE bindingKind(_, _, _)
bindingKind(ast, i, name) ==
  LET f == getFunctionParent(ast, i)
  IN IF f = 0
       THEN IF name \in ImportLocals(ast) THEN "module"
            ELSE IF ProgramDeclarations(ast, name) # {} THEN "hoisted"
            ELSE Undefined
       ELSE IF name \in ast[f].locals \/ (ast[f].type = "FunctionExpression" /\ ast[f].name = name)
              THEN "local"
              ELSE bindingKind(ast, f, name)

(* the specifier of the ImportDeclaration that encloses the binding of     *)
(* `name` (binding.path.parentPath) *)
bindingImportSource(ast, name) ==
  LET decls == {i \in 1..Len(ast) :
                  /\ ast[i].type = "ImportDeclaration"
                  /\ \E k \in 1..Len(ast[i].specifiers) : ast[i].specifiers[k].local = name}
  IN IF decls = {} THEN "" ELSE ast[CHOOSE i \in decls : TRUE].source

inferArrowFunctionName(ast, i) ==
  LET p == ast[i].parent
  IN IF p # 0 /\ ast[p].type = "VariableDeclarator" /\ ast[p].name # Undefined THEN ast[p].name
     ELSE IF p # 0 /\ ast[p].type = "AssignmentExpression" /\ ast[p].name # Undefined THEN ast[p].name
     ELSE Undefined

inferFunctionName(ast, i) ==
  IF ast[i].type \in {"FunctionDeclaration", "FunctionExpression"} /\ ast[i].name # Undefined
    THEN ast[i].name
    ELSE inferArrowFunctionName(ast, i)

inferFunctionKind(node) ==
  IF node.type = "ArrowFunctionExpression" THEN "arrow"
  ELSE IF node.type = "ClassMethod" THEN "method"
  ELSE IF node.type = "ClassDeclaration" THEN "class"
  ELSE "function"

(***************************************************************************)
(* analyzeFile: the traversal state and the visitors                       *)
(***************************************************************************)
EmptyAnalysis ==
  [imports |-> <<>>, functions |-> <<>>, calls |-> <<>>,
   importSpecifierLookup |-> <<>>, functionNodeLookup |-> <<>>,
   moduleInvoker |-> 0, functionCounter |-> 0]

ensureModuleInvoker(st, relPath) ==
  IF st.moduleInvoker = 0
    THEN [st EXCEPT
           !.functions = Append(@, [id |-> relPath \o "::(module)", name |-> "(module)",
                                    filePath |-> relPath, kind |-> "anonymous",
                                    exportName |-> Undefined, isExported |-> FALSE,
                                    include |-> TRUE, loc |-> 0]),
           !.moduleInvoker = Len(st.functions) + 1]
    ELSE st

(* registerFunction: the new record is the last element of functions *)
registerFunction(st, relPath, node, name, kind, exportName, isExported) ==
  LET idBase == IF exportName # Undefined THEN exportName
                ELSE IF name # Undefined THEN name ELSE "anonymous"
      c1 == IF idBase = "" THEN st.functionCounter + 1 ELSE st.functionCounter
      id == relPath \o "::" \o (IF idBase # "" THEN idBase ELSE "fn_" \o ToString(st.functionCounter))
      named == Truthy(name) \/ Truthy(exportName)
      infoName == IF Truthy(name) THEN name
                  ELSE IF Truthy(exportName) THEN exportName
                  ELSE "anonymous_" \o ToString(c1)
      c2 == IF named THEN c1 ELSE c1 + 1
      info == [id |-> id, name |-> infoName, filePath |-> relPath, kind |-> kind,
               exportName |-> exportName, isExported |-> isExported,
               include |-> isExported, loc |-> node]
  IN [st EXCEPT !.functions = Append(@, info),
                !.functionNodeLookup = MapSet(@, node, Len(st.functions) + 1),
                !.functionCounter = c2]

(* markExport on the record with index fn; fn = 0 stands for undefined *)
markExport(st, fn, exportName) ==
  IF fn = 0 THEN st
  ELSE [st EXCEPT !.functions[fn].isExported = TRUE,
                  !.functions[fn].exportName = exportName,
                  !.functions[fn].include = TRUE]

(* functionNodeLookup.get(node) ?? registerFunction(...), then markExport *)
lookupOrRegisterExport(st, relPath, node, name, kind, exportName) ==
  IF MapHas(st.functionNodeLookup, node)
    THEN markExport(st, MapGet(st.functionNodeLookup, node), exportName)
    ELSE LET r == registerFunction(st, relPath, node, name, kind, exportName, TRUE)
         IN markExport(r, Len(r.functions), exportName)

RECURSIVE addImportSpecifiers(_, _)
addImportSpecifiers(lookup, specifiers) ==
  IF Len(specifiers) = 0 THEN lookup
  ELSE addImportSpecifiers(MapSet(lookup, Head(specifiers).local, Head(specifiers)), Tail(specifiers))

specifierType(s) ==
  IF s.type = "ImportSpecifier" THEN "named"
  ELSE IF s.type = "ImportDefaultSpecifier" THEN "default"
  ELSE "namespace"

visitImportDeclaration(st, ast, i) ==
  LET specifiers == [k \in 1..Len(ast[i].specifiers) |->
                       [local |-> ast[i].specifiers[k].local,
                        imported |-> ast[i].specifiers[k].imported,
                        type |-> specifierType(ast[i].specifiers[k]),
                        resolved |-> Undefined]]
  IN [st EXCEPT !.importSpecifierLookup = addImportSpecifiers(@, specifiers),
                !.imports = Append(@, [source |-> ast[i].source, resolved |-> Undefined,
                                       kind |-> "es", specifiers |-> specifiers])]

visitCallExpression(st, ast, i, relPath) ==
  LET callee == ast[i].name
  IN IF callee = Undefined THEN st
     ELSE IF bindingKind(ast, i, callee) # "module" THEN st
     ELSE IF ~MapHas(st.importSpecifierLookup, callee) THEN st
     ELSE LET specifier == MapGet(st.importSpecifierLookup, callee)
          IN IF specifier.type = "namespace" THEN st
             ELSE
               LET importSource == bindingImportSource(ast, callee)
                   funcParent == getFunctionParent(ast, i)
                   st1 == IF funcParent # 0
                            THEN IF MapHas(st.functionNodeLookup, funcParent) THEN st
                                 ELSE LET inferred == inferFunctionName(ast, funcParent)
                                          name == IF inferred # Undefined THEN inferred
                                                  ELSE "anonymous_" \o ToString(st.functionCounter)
                                          stc == IF inferred # Undefined THEN st
                                                 ELSE [st EXCEPT !.functionCounter = @ + 1]
                                      IN registerFunction(stc, relPath, funcParent, name,
                                                          inferFunctionKind(ast[funcParent]), Undefined, FALSE)
                            ELSE ensureModuleInvoker(st, relPath)
                   caller == IF funcParent # 0 THEN MapGet(st1.functionNodeLookup, funcParent)
                             ELSE st1.moduleInvoker
                   st2 == [st1 EXCEPT !.functions[caller].include = TRUE]
               IN [st2 EXCEPT !.calls = Append(@, [local |-> specifier.local,
                                                   imported |-> specifier.imported,
                                                   source |-> importSource,
                                                   callerId |-> st2.functions[caller].id,
                                                   resolved |-> Undefined])]

visitFunctionDeclaration(st, ast, i, relPath) ==
  IF ast[i].name = Undefined THEN st
  ELSE LET parentIsExportNamed == ast[i].parent # 0 /\ ast[ast[i].parent].type = "ExportNamedDeclaration"
           r == registerFunction(st, relPath, i, ast[i].name, "function", Undefined, parentIsExportNamed)
       IN IF parentIsExportNamed THEN markExport(r, Len(r.functions), ast[i].name) ELSE r

visitArrowFunctionExpression(st, ast, i, relPath) ==
  LET name == inferArrowFunctionName(ast, i)
      parentExport == findParent(ast, i, {"ExportNamedDeclaration", "ExportDefaultDeclaration"})
      isDefault == parentExport # 0 /\ ast[parentExport].type = "ExportDefaultDeclaration"
      isNamed == parentExport # 0 /\ ast[parentExport].type = "ExportNamedDeclaration"
      r == registerFunction(st, relPath, i, IF name # Undefined THEN name ELSE "", "arrow",
                            IF isDefault THEN "default" ELSE Undefined, parentExport # 0)
      r1 == IF isNamed /\ Truthy(name) THEN markExport(r, Len(r.functions), name) ELSE r
  IN IF isDefault THEN markExport(r1, Len(r1.functions), "default") ELSE r1

visitFunctionExpression(st, ast, i, relPath) ==
  LET name == inferFunctionName(ast, i)
      parentExport == findParent(ast, i, {"ExportDefaultDeclaration"})
      r == registerFunction(st, relPath, i, IF name # Undefined THEN name ELSE "", "function",
                            IF parentExport # 0 THEN "default" ELSE Undefined, parentExport # 0)
  IN IF parentExport # 0 THEN markExport(r, Len(r.functions), "default") ELSE r

visitClassMethod(st, ast, i, relPath) ==
  IF ast[i].name = Undefined THEN st
  ELSE LET r == registerFunction(st, relPath, i, ast[i].name, "method", Undefined, FALSE)
           parentClass == findParent(ast, i, {"ClassDeclaration"})
       IN IF /\ parentClass # 0
             /\ ast[parentClass].name # Undefined
             /\ ast[parentClass].parent # 0
             /\ ast[ast[parentClass].parent].type = "ExportNamedDeclaration"
            THEN [r EXCEPT !.functions[Len(r.functions)].exportName =
                              ast[parentClass].name \o "." \o ast[i].name,
                           !.functions[Len(r.functions)].include = TRUE]
            ELSE r

(* the loop over declaration.declarations of an exported variable          *)
(* declaration                                                             *)
RECURSIVE exportDeclarators(_, _, _, _)
exportDeclarators(st, ast, decls, relPath) ==
  IF Len(decls) = 0 THEN st
  ELSE LET d == ast[Head(decls)]
           init == d.declaration
           st1 == IF d.name # Undefined /\ init # 0
                     /\ ast[init].type \in {"FunctionExpression", "ArrowFunctionExpression"}
                    THEN lookupOrRegisterExport(st, relPath, init, d.name,
                           IF ast[init].type = "ArrowFunctionExpression" THEN "arrow" ELSE "function",
                           d.name)
                    ELSE st
       IN exportDeclarators(st1, ast, Tail(decls), relPath)

visitExportNamedDeclaration(st, ast, i, relPath) ==
  LET declaration == ast[i].declaration
  IN IF declaration = 0 THEN st
     ELSE LET d == ast[declaration]
          IN IF d.type = "FunctionDeclaration" /\ d.name # Undefined
               THEN lookupOrRegisterExport(st, relPath, declaration, d.name, "function", d.name)
             ELSE IF d.type = "VariableDeclaration"
               THEN exportDeclarators(st, ast,
                      SelectSeq([k \in 1..Len(ast) |-> k],
                                LAMBDA k : ast[k].type = "VariableDeclarator" /\ ast[k].parent = declaration),
                      relPath)
             ELSE IF d.type = "ClassDeclaration" /\ d.name # Undefined
               THEN LET r == registerFunction(st, relPath, declaration, d.name, "class", d.name, TRUE)
                    IN markExport(r, Len(r.functions), d.name)
             ELSE st

visitExportDefaultDeclaration(st, ast, i, relPath) ==
  LET declaration == ast[i].declaration
  IN IF declaration # 0 /\ ast[declaration].type = "FunctionDeclaration"
       THEN lookupOrRegisterExport(st, relPath, declaration,
              IF ast[declaration].name # Undefined THEN ast[declaration].name ELSE "default",
              "function", "default")
     ELSE IF declaration # 0 /\ ast[declaration].type \in {"ArrowFunctionExpression", "FunctionExpression"}
       THEN lookupOrRegisterExport(st, relPath, declaration, "default",
              IF ast[declaration].type = "ArrowFunctionExpression" THEN "arrow" ELSE "function",
              "default")
     ELSE IF declaration = 0 /\ ast[i].name # Undefined
       THEN LET bound == ProgramDeclarations(ast, ast[i].name)
                node == IF bound = {} THEN 0 ELSE CHOOSE b \in bound : TRUE
            IN IF node # 0 /\ MapHas(st.functionNodeLookup, node)
                 THEN markExport(st, MapGet(st.functionNodeLookup, node), "default")
                 ELSE st
     ELSE st

visit(st, ast, i, relPath) ==
  LET type == ast[i].type
  IN CASE type = "ImportDeclaration" -> visitImportDeclaration(st, ast, i)
       [] type = "CallExpression" -> visitCallExpression(st, ast, i, relPath)
       [] type = "FunctionDeclaration" -> visitFunctionDeclaration(st, ast, i, relPath)
       [] type = "ArrowFunctionExpression" -> visitArrowFunctionExpression(st, ast, i, relPath)
       [] type = "FunctionExpression" -> visitFunctionExpression(st, ast, i, relPath)
       [] type = "ClassMethod" -> visitClassMethod(st, ast, i, relPath)
       [] type = "ExportNamedDeclaration" -> visitExportNamedDeclaration(st, ast, i, relPath)
       [] type = "ExportDefaultDeclaration" -> visitExportDefaultDeclaration(st, ast, i, relPath)
       [] OTHER -> st

RECURSIVE traverse(_, _, _, _)
traverse(st, ast, i, relPath) ==
  IF i > Len(ast) THEN st
  ELSE CHOOSE r \in {traverse(next, ast, i + 1, relPath) : next \in {visit(st, ast, i, relPath)}} : TRUE

(* analyzeFile for a file that parses to ast *)
analyzeFile(relPath, ast) ==
  LET st == traverse(EmptyAnalysis, ast, 1, relPath)
  IN [path |-> relPath, imports |-> st.imports, functions |-> st.functions, calls |-> st.calls]

(***************************************************************************)
(* The repositories analysed: every file of the universe with its parsed   *)
(* content.  SyntaxError stands for a file on which parse() throws.        *)
(***************************************************************************)
SyntaxError == <<[type |-> "SyntaxError"]>>

(* src/main.ts:                                                              *)
(*   import { helper } from './util';                                      *)
(*   import def, { helper as h2 } from './util.ts';                        *)
(*   import cfg from './data.json';                                        *)
(*   import { listed } from './lib/spec';                                  *)
(*   import { aliased } from '@/util';                                     *)
(*   helper();                                                             *)
(*   function run() { h2(); def(); local(); listed(); helper(); }          *)
(*   function local() {}                                                   *)
(*   export function shadow(helper) { helper(); }                          *)
MainSource == <<
  ImportDeclaration("./util", <<ImportSpecifier("helper", "helper")>>),
  ImportDeclaration("./util.ts", <<ImportDefaultSpecifier("def"), ImportSpecifier("h2", "helper")>>),
  ImportDeclaration("./data.json", <<ImportDefaultSpecifier("cfg")>>),
  ImportDeclaration("./lib/spec", <<ImportSpecifier("listed", "listed")>>),
  ImportDeclaration("@/util", <<ImportSpecifier("aliased", "aliased")>>),
  CallExpression(0, "helper"),
  FunctionDeclaration(0, "run", {}),
  CallExpression(7, "h2"),
  CallExpression(7, "def"),
  CallExpression(7, "local"),
  CallExpression(7, "listed"),
  CallExpression(7, "helper"),
  FunctionDeclaration(0, "local", {}),
  ExportNamedDeclaration(15, <<>>),
  FunctionDeclaration(14, "shadow", {"helper"}),
  CallExpression(15, "helper") >>

(* src/util.ts:                                                              *)
(*   export function helper() {}                                           *)
(*   export default function () {}                                         *)
(*   export const mk = () => {};                                           *)
UtilSource == <<
  ExportNamedDeclaration(2, <<>>),
  FunctionDeclaration(1, "helper", {}),
  ExportDefaultDeclaration(4, Undefined),
  FunctionDeclaration(3, Undefined, {}),
  ExportNamedDeclaration(6, <<>>),
  VariableDeclaration(5),
  VariableDeclarator(6, "mk", 8),
  ArrowFunctionExpression(7, {}) >>

(* src/lib/spec.ts:                                                          *)
(*   function listed() {}                                                  *)
(*   export { listed };                                                    *)
SpecSource == <<
  FunctionDeclaration(0, "listed", {}),
  ExportNamedDeclaration(0, <<ExportSpecifier("listed", "listed")>>) >>

(* src/app.ts:                                                               *)
(*   import './g1'; import './g2'; import './g3';                          *)
(*   import './g4'; import './g5'; import './g6';                          *)
(*   import again from './g1';                                             *)
(*   import '';                                                            *)
(*   import '../bad';                                                      *)
(*   export class A { run() {} }                                           *)
(*   export class B { run() {} }                                           *)
AppSource == <<
  ImportDeclaration("./g1", <<>>),
  ImportDeclaration("./g2", <<>>),
  ImportDeclaration("./g3", <<>>),
  ImportDeclaration("./g4", <<>>),
  ImportDeclaration("./g5", <<>>),
  ImportDeclaration("./g6", <<>>),
  ImportDeclaration("./g1", <<ImportDefaultSpecifier("again")>>),
  ImportDeclaration("", <<>>),
  ImportDeclaration("../bad", <<>>),
  ExportNamedDeclaration(11, <<>>),
  ClassDeclaration(10, "A"),
  ClassMethod(11, "run", {}),
  ExportNamedDeclaration(14, <<>>),
  ClassDeclaration(13, "B"),
  ClassMethod(14, "run", {}) >>

(* the files a repository may hold, in discovery order *)
RepoUniverse ==
  <<"bad.ts", "src/app.ts", "src/data.json", "src/lib/spec.ts", "src/main.ts", "src/util.ts">>

Source(rel) ==
  CASE rel = "src/main.ts" -> MainSource
    [] rel = "src/util.ts" -> UtilSource
    [] rel = "src/lib/spec.ts" -> SpecSource
    [] rel = "src/app.ts" -> AppSource
    [] OTHER -> SyntaxError

(* the alias tables loadTsconfigPaths may return *)
AliasTables == {
  <<>>,
  <<[prefix |-> "@/", suffix |-> "", targets |-> <<"app/", "src/">>]>>,
  <<[prefix |-> "lib/u", suffix |-> "", targets |-> <<"src/lib/u.ts">>],
    [prefix |-> "lib/", suffix |-> "", targets |-> <<"app/lib/">>]>>,
  <<[prefix |-> "@/", suffix |-> ".js", targets |-> <<".">>]>> }

RepoAliasTables == { <<>>, <<[prefix |-> "@/", suffix |-> "", targets |-> <<"src">>]>> }

(* bounds *)
MaxFiles == 2
MaxLLMFileEdges == 1
MaxLLMFunctionEdges == 2
MaxResolveCalls == 2

VARIABLES
  files,            \* the rel paths of fileEntries, in discovery order
  directoryEntries, \* the rel paths of the directories found
  tsconfigPaths,    \* the entries loadTsconfigPaths returns
  apiKey,           \* whether OPENAI_API_KEY is set
  pc,               \* where analyzeRepositoryGraph stands
  pending,          \* parse targets whose analyzeFile promise has not settled
  ctx,              \* the AnalysisContext
  candidateCache,   \* the resolver's memo of probed bases
  llm,              \* progress of the enrichment merge loops
  response,         \* what analyzeRepositoryGraph returned or threw
  lastResolve,      \* the last call made to the resolver and its result
  reply,            \* the content of a reply of the language model on its way to a result
  enhance,         \* the run of enhanceWithLLM
  pool,            \* the worker pool of analyzeCodeFromFiles
  session,         \* a session of the analyze route
  cacheCheck,      \* a call of checkCache
  rate             \* the rate limit rows of a user and the requests on them

vars == <<files, directoryEntries, tsconfigPaths, apiKey, pc, pending, ctx,
          candidateCache, llm, response, lastResolve, reply, enhance, pool, session, cacheCheck, rate>>

fileSet == Range(files)

(* Set.add on an insertion-ordered set *)
SetAdd(s, x) == With2(s, x, LAMBDA set, v : IF v \in Range(set) THEN set ELSE Append(set, v))

RECURSIVE SetAddAll(_, _)
SetAddAll(s, xs) ==
  With(xs, LAMBDA items :
    IF Len(items) = 0 THEN s
    ELSE With(SetAdd(s, Head(items)), LAMBDA next : SetAddAll(next, Tail(items))))

(* the directories of the tree that holds the given files *)
AncestorDirs(rel) ==
  LET segs == SplitSlash(rel)
  IN [k \in 1..(Len(segs) - 1) |-> JoinSlash(SubSeq(segs, 1, k))]

RECURSIVE DirectoriesOf(_)
DirectoriesOf(fs) ==
  IF Len(fs) = 0 THEN <<>>
  ELSE SetAddAll(DirectoriesOf(SubSeq(fs, 1, Len(fs) - 1)), AncestorDirs(fs[Len(fs)]))

EmptyCtx ==
  [files |-> <<>>, warnings |-> <<>>, fileEdges |-> <<>>, functionEdges |-> <<>>,
   unresolved |-> <<>>, exportedFunctions |-> <<>>]

(* requests counts the calls of fetch; outcome tells how                    *)
(* inferRelationshipsWithLLM ended: "null", "thrown", "empty" (the result  *)
(* returned when no JSON could be parsed) or "normalised"                   *)
NoLLM ==
  [fileEdgesSeen |-> 0, functionEdgesSeen |-> 0, llmFileEdges |-> 0, llmFunctionEdges |-> 0,
   level |-> "none", proposal |-> [source |-> "", target |-> ""],
   requests |-> 0, outcome |-> "none"]

NoResponse ==
  [status |-> "pending", error |-> "", fileNodes |-> <<>>, fileEdges |-> <<>>,
   functionNodes |-> <<>>, functionEdges |-> <<>>, warnings |-> <<>>]

(* sizeBefore is the size the cache had when the last call was made *)
NoResolve == [fromPath |-> "", specifier |-> "", res |-> Undefined, calls |-> 0, sizeBefore |-> 0]

(***************************************************************************)
(* Graph assembly.  The operators thread the context and the resolver's    *)
(* cache: c = [ctx |-> ..., cache |-> ...].                                *)
(***************************************************************************)
edgeKey(source, target) == source \o "->" \o target

(* a write that stores a further entry instead of replacing the entry of   *)
(* its key                                                                 *)
setStaticEdge_append(edges, source, target) ==
  Append(edges, [key |-> edgeKey(source, target),
                 value |-> [source |-> source, target |-> target, kind |-> "imports",
                            sourceType |-> "static", confidence |-> Undefined, reason |-> Undefined]])

(* ctx.fileEdges.set / ctx.functionEdges.set of resolveImports and         *)
(* collectFunctionEdges: an existing entry keeps its kind, sourceType,     *)
(* confidence and reason                                                   *)
setStaticEdge(edges, source, target) ==
  LET key == edgeKey(source, target)
      has == MapHas(edges, key)
      existing == MapGet(edges, key)
  IN MapSet(edges, key,
            [source |-> source, target |-> target,
             kind |-> IF has THEN existing.kind ELSE "imports",
             sourceType |-> IF has THEN existing.sourceType ELSE "static",
             confidence |-> IF has THEN existing.confidence ELSE Undefined,
             reason |-> IF has THEN existing.reason ELSE Undefined])

(* the body of resolveImports' inner loop for binding bi of file fi *)
resolveBinding(c, fset, paths, fi, bi) ==
  LET relPath == c.ctx.files[fi].key
      binding == c.ctx.files[fi].value.imports[bi]
  IN With(resolver(c.cache, fset, paths, relPath, binding.source), LAMBDA r :
     IF r.res # Undefined
       THEN [ctx |-> [c.ctx EXCEPT
                        !.files[fi].value.imports[bi] =
                           [binding EXCEPT !.resolved = r.res,
                                           !.specifiers = [k \in 1..Len(binding.specifiers) |->
                                                             [binding.specifiers[k] EXCEPT !.resolved = r.res]]],
                        !.fileEdges = setStaticEdge(@, relPath, r.res)],
             cache |-> r.cache]
     ELSE IF binding.source # ""
       THEN LET unresolved == IF MapHas(c.ctx.unresolved, relPath)
                                THEN MapGet(c.ctx.unresolved, relPath) ELSE <<>>
            IN [ctx |-> [c.ctx EXCEPT !.unresolved = MapSet(@, relPath, SetAdd(unresolved, binding.source))],
                cache |-> r.cache]
     ELSE [ctx |-> c.ctx, cache |-> r.cache])

RECURSIVE resolveImportsFrom(_, _, _, _, _)
resolveImportsFrom(c, fset, paths, fi, bi) ==
  IF fi > Len(c.ctx.files) THEN c
  ELSE IF bi > Len(c.ctx.files[fi].value.imports) THEN resolveImportsFrom(c, fset, paths, fi + 1, 1)
  ELSE CHOOSE r \in {resolveImportsFrom(next, fset, paths, fi, bi + 1) :
                       next \in {resolveBinding(c, fset, paths, fi, bi)}} : TRUE

resolveImports(c, fset, paths) == resolveImportsFrom(c, fset, paths, 1, 1)

(* collectFunctionExports: a stored FunctionInfo is referred to by the     *)
(* index of its file in ctx.files and its index in that file's functions   *)
RECURSIVE collectFunctionExportsFrom(_, _, _)
collectFunctionExportsFrom(cx, fi, k) ==
  IF fi > Len(cx.files) THEN cx
  ELSE IF k > Len(cx.files[fi].value.functions) THEN collectFunctionExportsFrom(cx, fi + 1, 1)
  ELSE LET analysis == cx.files[fi].value
           fn == analysis.functions[k]
       IN IF fn.isExported /\ Truthy(fn.exportName)
            THEN With([cx EXCEPT !.exportedFunctions =
                         MapSet(@, analysis.path \o ":" \o fn.exportName, [file |-> fi, fn |-> k])],
                      LAMBDA next : collectFunctionExportsFrom(next, fi, k + 1))
            ELSE collectFunctionExportsFrom(cx, fi, k + 1)

collectFunctionExports(cx) == collectFunctionExportsFrom(cx, 1, 1)

(* the specifierMap collectFunctionEdges builds for one file *)
RECURSIVE specifierMapOf(_, _)
specifierMapOf(m, imports) ==
  IF Len(imports) = 0 THEN m
  ELSE specifierMapOf(addImportSpecifiers(m, Head(imports).specifiers), Tail(imports))

(* analysis.functions.find((fn) => fn.id === id): the first index, or 0 *)
findFunction(functions, id) ==
  IF \E k \in 1..Len(functions) : functions[k].id = id
    THEN CHOOSE k \in 1..Len(functions) :
           functions[k].id = id /\ \A j \in 1..(k - 1) : functions[j].id # id
    ELSE 0

(* the body of collectFunctionEdges' loop for call ci of file fi *)
collectCallEdge(cx, fi, ci) ==
  LET analysis == cx.files[fi].value
      call == analysis.calls[ci]
      specifierMap == specifierMapOf(<<>>, analysis.imports)
  IN IF ~MapHas(specifierMap, call.local) THEN cx
     ELSE LET spec == MapGet(specifierMap, call.local)
              targetKey == spec.resolved \o ":" \o spec.imported
              defaultKey == spec.resolved \o ":default"
          IN IF ~Truthy(spec.resolved) THEN cx
             ELSE IF ~MapHas(cx.exportedFunctions, targetKey) /\ ~MapHas(cx.exportedFunctions, defaultKey)
               THEN cx
             ELSE LET ref == IF MapHas(cx.exportedFunctions, targetKey)
                               THEN MapGet(cx.exportedFunctions, targetKey)
                               ELSE MapGet(cx.exportedFunctions, defaultKey)
                      caller == findFunction(analysis.functions, call.callerId)
                  IN IF caller = 0 THEN cx
                     ELSE LET cx1 == [cx EXCEPT !.files[fi].value.functions[caller].include = TRUE]
                              cx2 == [cx1 EXCEPT !.files[ref.file].value.functions[ref.fn].include = TRUE,
                                                 !.files[fi].value.calls[ci].resolved = spec.resolved]
                          IN [cx2 EXCEPT !.functionEdges =
                                setStaticEdge(@, analysis.functions[caller].id,
                                              cx.files[ref.file].value.functions[ref.fn].id)]

RECURSIVE collectFunctionEdgesFrom(_, _, _)
collectFunctionEdgesFrom(cx, fi, ci) ==
  IF fi > Len(cx.files) THEN cx
  ELSE IF ci > Len(cx.files[fi].value.calls) THEN collectFunctionEdgesFrom(cx, fi + 1, 1)
  ELSE CHOOSE r \in {collectFunctionEdgesFrom(next, fi, ci + 1) : next \in {collectCallEdge(cx, fi, ci)}} : TRUE

collectFunctionEdges(cx) == collectFunctionEdgesFrom(cx, 1, 1)

(* collectUnresolvedWarnings *)
RECURSIVE JoinComma(_)
JoinComma(items) ==
  IF Len(items) = 0 THEN ""
  ELSE IF Len(items) = 1 THEN items[1]
  ELSE items[1] \o ", " \o JoinComma(Tail(items))

(* the message with the ellipsis from five specifiers on *)
unresolvedWarning_atFive(file, specifiers) ==
  LET summary == JoinComma(SubSeq(specifiers, 1, Min(5, Len(specifiers))))
  IN IF Len(specifiers) >= 5
       THEN "Some imports in " \o file \o " could not be resolved: " \o summary \o ", ..."
       ELSE "Could not resolve imports in " \o file \o ": " \o summary

(* the message of collectUnresolvedWarnings; "..." stands for the          *)
(* character U+2026                                                        *)
unresolvedWarning(file, specifiers) ==
  LET summary == JoinComma(SubSeq(specifiers, 1, Min(5, Len(specifiers))))
  IN IF Len(specifiers) > 5
       THEN "Some imports in " \o file \o " could not be resolved: " \o summary \o ", ..."
       ELSE "Could not resolve imports in " \o file \o ": " \o summary

collectUnresolvedWarnings(cx) ==
  [cx EXCEPT !.warnings = @ \o [i \in 1..Len(cx.unresolved) |->
                                  unresolvedWarning(cx.unresolved[i].key, cx.unresolved[i].value)]]

(***************************************************************************)
(* LLM relationship inference: normalisation of the parsed payload         *)
(***************************************************************************)
Confidences == {"low", "medium", "high"}

(* toFileEdge: <<>> stands for null.  A raw field that is missing or not a *)
(* string is Undefined.                                                    *)
toFileEdge(raw) ==
  IF raw.source = Undefined \/ raw.target = Undefined THEN <<>>
  ELSE <<[source |-> raw.source, target |-> raw.target,
          relationship |-> IF raw.relationship # Undefined THEN raw.relationship ELSE "uses",
          confidence |-> IF raw.confidence \in Confidences THEN raw.confidence ELSE Undefined]>>

toFunctionEdge(raw) ==
  IF \/ raw.source.filePath = Undefined \/ raw.source.symbol = Undefined
     \/ raw.target.filePath = Undefined \/ raw.target.symbol = Undefined
    THEN <<>>
  ELSE <<[source |-> [filePath |-> raw.source.filePath, symbol |-> raw.source.symbol],
          target |-> [filePath |-> raw.target.filePath, symbol |-> raw.target.symbol],
          relationship |-> IF raw.relationship # Undefined THEN raw.relationship ELSE "calls",
          confidence |-> IF raw.confidence \in Confidences THEN raw.confidence ELSE Undefined,
          reason |-> raw.reason]>>

(* the edges the language model may propose, as parsed from its JSON *)
RawFileEdge(source, target, relationship, confidence) ==
  [source |-> source, target |-> target, relationship |-> relationship, confidence |-> confidence]

LLMFileProposals == {
  RawFileEdge("src/main.ts", "src/util.ts", "imports", "high"),
  RawFileEdge("src/util.ts", "src/main.ts", "Imports", "certain"),
  RawFileEdge("src/util.ts", "src/main.ts", "calls", "medium"),
  RawFileEdge("src/main.ts", "src/data.json", Undefined, "high") }

RawFunctionEdge(sourceFile, sourceSymbol, targetFile, targetSymbol, relationship, confidence, reason) ==
  [source |-> [filePath |-> sourceFile, symbol |-> sourceSymbol],
   target |-> [filePath |-> targetFile, symbol |-> targetSymbol],
   relationship |-> relationship, confidence |-> confidence, reason |-> reason]

LLMFunctionProposals == {
  RawFunctionEdge("src/main.ts", "run", "src/util.ts", "helper", "calls", "high", "r1"),
  RawFunctionEdge("src/main.ts", "run", "src/util.ts", "helper", "uses", "low", "r2"),
  RawFunctionEdge("src/main.ts", "local", "src/util.ts", "mk", "Invokes", Undefined, Undefined),
  RawFunctionEdge("src/main.ts", "ghost", "src/util.ts", "helper", "calls", "high", "r1"),
  RawFunctionEdge("src/main.ts", "run", Undefined, "helper", "calls", "high", "r1") }

LLMNotes == {<<>>, <<"n1">>}

LLMErrors == {"OpenAI API error: 500 ", "No response content from OpenAI API"}

(***************************************************************************)
(* inferRelationshipsWithLLM: from the content of the reply to the result. *)
(* The regular expressions are computed character by character.            *)
(***************************************************************************)
Whitespace == {" ", "\n", "\r", "\t"}

(* the characters of [\u0000-\u001F\u007F-\u009F] that the replies hold *)
ControlCharacters == {"\n", "\r", "\t"}

Digits == {"0", "1", "2", "3", "4", "5", "6", "7", "8", "9"}

(* \w *)
WordCharacters ==
  Digits \cup {"_"} \cup DOMAIN LowerMap \cup {LowerMap[c] : c \in DOMAIN LowerMap}

(* s[i], empty outside the string *)
CharAt(s, i) == IF i >= 1 /\ i <= Len(s) THEN SubSeq(s, i, i) ELSE ""

First(S) == CHOOSE i \in S : \A j \in S : i <= j
Last(S) == CHOOSE i \in S : \A j \in S : j <= i

(* the concatenation of pieces[lo..hi] *)
RECURSIVE Concat(_, _, _)
Concat(pieces, lo, hi) ==
  IF lo > hi THEN ""
  ELSE IF lo = hi THEN pieces[lo]
  ELSE With((lo + hi) \div 2, LAMBDA mid : Concat(pieces, lo, mid) \o Concat(pieces, mid + 1, hi))

(* the first index from i on that holds no whitespace, Len(s) + 1 if none *)
SkipWhitespace(s, i) ==
  With(i, LAMBDA from :
    IF from > Len(s) THEN Len(s) + 1
    ELSE With({k \in from..Len(s) : SubSeq(s, k, k) \notin Whitespace}, LAMBDA rest :
           IF rest = {} THEN Len(s) + 1 ELSE First(rest)))

(* jsonText.trim() *)
Trim(s) ==
  With(s, LAMBDA str :
    With({i \in 1..Len(str) : SubSeq(str, i, i) \notin Whitespace}, LAMBDA inked :
      IF inked = {} THEN "" ELSE SubSeq(str, First(inked), Last(inked))))

(* the grave accent, which a string of TLA+ cannot hold, is written "~" *)
Fence == "~~~"

(* the capture of /~~~(?:json)?\s*(\{[\s\S]*\})\s*~~~/ for the match that  *)
(* starts at i, Undefined when there is none: the optional "json" and the  *)
(* whitespace are taken greedily, and so is the body, which ends at the    *)
(* last "}" that is followed by whitespace and the closing fence           *)
FenceCaptureAt(s, i) ==
  IF ~StartsWith(SubSeq(s, i, Len(s)), Fence) THEN Undefined
  ELSE With(SkipWhitespace(s, IF StartsWith(SubSeq(s, i + 3, Len(s)), "json") THEN i + 7 ELSE i + 3),
            LAMBDA open :
              IF CharAt(s, open) # "{" THEN Undefined
              ELSE With({j \in (open + 1)..Len(s) :
                           /\ SubSeq(s, j, j) = "}"
                           /\ StartsWith(SubSeq(s, SkipWhitespace(s, j + 1), Len(s)), Fence)},
                        LAMBDA closes :
                          IF closes = {} THEN Undefined ELSE SubSeq(s, open, Last(closes))))

(* cleanJsonText.match(...): the capture of the leftmost match *)
FenceCapture(s) ==
  With(s, LAMBDA str :
    With({i \in 1..Len(str) : FenceCaptureAt(str, i) # Undefined}, LAMBDA starts :
      IF starts = {} THEN Undefined ELSE FenceCaptureAt(str, First(starts))))

(* .replace(/[\u0000-\u001F\u007F-\u009F]/g, ''); the replacements of CR,  *)
(* LF and tab by a space that follow it find nothing left to replace       *)
RemoveControlCharacters(s) ==
  With(s, LAMBDA str :
    Concat([i \in 1..Len(str) |->
              IF SubSeq(str, i, i) \in ControlCharacters THEN "" ELSE SubSeq(str, i, i)],
           1, Len(str)))

(* substring(indexOf('{'), lastIndexOf('}') + 1) when the last "}" lies    *)
(* after the first "{"                                                     *)
ExtractBraces(s) ==
  With(s, LAMBDA str :
    With2({i \in 1..Len(str) : SubSeq(str, i, i) = "{"}, {i \in 1..Len(str) : SubSeq(str, i, i) = "}"},
          LAMBDA opens, closes :
            IF opens # {} /\ closes # {} /\ Last(closes) > First(opens)
              THEN SubSeq(str, First(opens), Last(closes))
              ELSE str))

(* the replacement that leaves the commas where they are *)
RemoveTrailingCommas_kept(s) == s

(* .replace(/,(\s*[}\]])/g, '$1') *)
RemoveTrailingCommas(s) ==
  With(s, LAMBDA str :
    Concat([i \in 1..Len(str) |->
              IF SubSeq(str, i, i) = "," /\ CharAt(str, SkipWhitespace(str, i + 1)) \in {"}", "]"}
                THEN "" ELSE SubSeq(str, i, i)],
           1, Len(str)))

(* .replace(/}(\s*"){/g, '},$1{') and .replace(/](\s*"){/g, '],$1{'), for  *)
(* close = "}" and close = "]"                                             *)
InsertCommaBeforeQuotedBrace(s, close) ==
  With(s, LAMBDA str :
    Concat([i \in 1..Len(str) |->
              IF /\ SubSeq(str, i, i) = close
                 /\ CharAt(str, SkipWhitespace(str, i + 1)) = "\""
                 /\ CharAt(str, SkipWhitespace(str, i + 1) + 1) = "{"
                THEN close \o "," ELSE SubSeq(str, i, i)],
           1, Len(str)))

(* .replace(/}(\s*\w)/g, '},$1') and .replace(/](\s*\w)/g, '],$1') *)
InsertCommaBeforeWord(s, close) ==
  With(s, LAMBDA str :
    Concat([i \in 1..Len(str) |->
              IF SubSeq(str, i, i) = close /\ CharAt(str, SkipWhitespace(str, i + 1)) \in WordCharacters
                THEN close \o "," ELSE SubSeq(str, i, i)],
           1, Len(str)))

(* .replace(/}[^}]*$/g, '}'): the text after the last "}" is cut *)
CutAfterLastBrace(s) ==
  With(s, LAMBDA str :
    With({i \in 1..Len(str) : SubSeq(str, i, i) = "}"}, LAMBDA closes :
      IF closes = {} THEN str ELSE SubSeq(str, 1, Last(closes))))

(* the index at which the run of characters of `set` that ends at `end`    *)
(* starts; end + 1 when s[end] is not in the set                           *)
RunStart(s, set, end) == 1 + Last({0} \cup {j \in 1..end : SubSeq(s, j, j) \notin set})

(* .replace(/}*\s*$/g, '}'): the leftmost match is the longest suffix made *)
(* of braces followed by whitespace and is replaced by one brace; the      *)
(* global search then matches the empty string at the end of the text and  *)
(* replaces it by a brace as well                                          *)
CloseWithBrace(s) ==
  With(s, LAMBDA str :
    With(RunStart(str, {"}"}, RunStart(str, Whitespace, Len(str)) - 1), LAMBDA start :
      SubSeq(str, 1, start - 1) \o (IF start <= Len(str) THEN "}" ELSE "") \o "}"))

(* the text handed to JSON.parse *)
cleanResponse(jsonText) ==
  With(Trim(jsonText), LAMBDA trimmed :
    With(FenceCapture(trimmed), LAMBDA jsonMatch :
      CloseWithBrace(
        CutAfterLastBrace(
          InsertCommaBeforeWord(
            InsertCommaBeforeWord(
              InsertCommaBeforeQuotedBrace(
                InsertCommaBeforeQuotedBrace(
                  RemoveTrailingCommas(
                    ExtractBraces(
                      RemoveControlCharacters(IF jsonMatch # Undefined THEN jsonMatch ELSE trimmed))),
                  "}"),
                "]"),
              "}"),
            "]")))))

(***************************************************************************)
(* JSON.parse.  A value is [t |-> type, v |-> content]: the text of a      *)
(* string, number or literal, the elements of an array, the [key, value]   *)
(* entries of an object.  The replies hold no escape sequences, fractions, *)
(* exponents or signs; a string that holds a backslash is rejected.        *)
(***************************************************************************)
JNull == [t |-> "literal", v |-> "null"]
JFail == [ok |-> FALSE, val |-> JNull, pos |-> 0]
JOk(val, pos) == [ok |-> TRUE, val |-> val, pos |-> pos]

(* s[i] is the opening quote *)
ParseString(s, i) ==
  With({k \in (i + 1)..Len(s) : SubSeq(s, k, k) = "\""}, LAMBDA quotes :
    IF quotes = {} THEN JFail
    ELSE With(SubSeq(s, i + 1, First(quotes) - 1), LAMBDA text :
           IF \E k \in 1..Len(text) : SubSeq(text, k, k) \in ControlCharacters \cup {"\\"}
             THEN JFail
             ELSE JOk([t |-> "string", v |-> text], First(quotes) + 1)))

(* s[i] is a digit: a zero stands alone *)
ParseNumber(s, i) ==
  With(IF SubSeq(s, i, i) = "0" THEN i + 1
       ELSE First({k \in i..(Len(s) + 1) : CharAt(s, k) \notin Digits}),
       LAMBDA end : JOk([t |-> "number", v |-> SubSeq(s, i, end - 1)], end))

ParseLiteral(s, i) ==
  With({lit \in {"true", "false", "null"} : StartsWith(SubSeq(s, i, Len(s)), lit)}, LAMBDA lits :
    IF lits = {} THEN JFail
    ELSE With(CHOOSE lit \in lits : TRUE, LAMBDA lit : JOk([t |-> "literal", v |-> lit], i + Len(lit))))

RECURSIVE ParseValue(_, _)
RECURSIVE ParseMembers(_, _, _)
RECURSIVE ParseElements(_, _, _)

(* the members of an object from the key at i on; acc holds the entries    *)
(* read so far, a repeated key replaces the value of its entry             *)
ParseMembers(s, i, acc) ==
  IF CharAt(s, i) # "\"" THEN JFail
  ELSE With(ParseString(s, i), LAMBDA key :
    IF ~key.ok THEN JFail
    ELSE With(SkipWhitespace(s, key.pos), LAMBDA colon :
      IF CharAt(s, colon) # ":" THEN JFail
      ELSE With(ParseValue(s, colon + 1), LAMBDA value :
        IF ~value.ok THEN JFail
        ELSE With2(SkipWhitespace(s, value.pos), MapSet(acc, key.val.v, value.val), LAMBDA next, entries :
          IF CharAt(s, next) = "}" THEN JOk([t |-> "object", v |-> entries], next + 1)
          ELSE IF CharAt(s, next) = ","
            THEN ParseMembers(s, SkipWhitespace(s, next + 1), entries)
          ELSE JFail))))

(* the elements of an array from the value at i on *)
ParseElements(s, i, acc) ==
  With(ParseValue(s, i), LAMBDA value :
    IF ~value.ok THEN JFail
    ELSE With2(SkipWhitespace(s, value.pos), Append(acc, value.val), LAMBDA next, elements :
      IF CharAt(s, next) = "]" THEN JOk([t |-> "array", v |-> elements], next + 1)
      ELSE IF CharAt(s, next) = "," THEN ParseElements(s, next + 1, elements)
      ELSE JFail))

ParseValue(s, i) ==
  With(SkipWhitespace(s, i), LAMBDA start :
    With(CharAt(s, start), LAMBDA c :
      IF c = "{"
        THEN With(SkipWhitespace(s, start + 1), LAMBDA inner :
               IF CharAt(s, inner) = "}" THEN JOk([t |-> "object", v |-> <<>>], inner + 1)
               ELSE ParseMembers(s, inner, <<>>))
      ELSE IF c = "["
        THEN With(SkipWhitespace(s, start + 1), LAMBDA inner :
               IF CharAt(s, inner) = "]" THEN JOk([t |-> "array", v |-> <<>>], inner + 1)
               ELSE ParseElements(s, inner, <<>>))
      ELSE IF c = "\"" THEN ParseString(s, start)
      ELSE IF c \in Digits THEN ParseNumber(s, start)
      ELSE IF c = "" THEN JFail
      ELSE ParseLiteral(s, start)))

(* JSON.parse(text): ok is FALSE when it throws *)
JSONParse(text) ==
  With(text, LAMBDA s :
    With(ParseValue(s, 1), LAMBDA r :
      IF r.ok /\ SkipWhitespace(s, r.pos) > Len(s)
        THEN [ok |-> TRUE, val |-> r.val]
        ELSE [ok |-> FALSE, val |-> JNull]))

(* the fallback pattern: "{", text without braces, any number of pairs    *)
(* "{" "}" with no brace inside and text without braces after each, "}".   *)
(* The end of its match that starts at the "{" at p, 0 when there is none: *)
(* the braces after p must come in pairs "{" "}" up to a closing "}"       *)
PartialEnd(s, p) ==
  With({b \in (p + 1)..Len(s) : SubSeq(s, b, b) \in {"{", "}"}}, LAMBDA braces :
    With({b \in braces :
            LET rank == Cardinality({a \in braces : a <= b})
            IN \/ rank % 2 = 1 /\ SubSeq(s, b, b) = "}"
               \/ rank % 2 = 0 /\ SubSeq(s, b, b) = "{"},
         LAMBDA stops :
           IF stops = {} THEN 0
           ELSE IF SubSeq(s, First(stops), First(stops)) = "}" THEN First(stops)
           ELSE 0))

(* cleanJsonText.match(...)[0] of the fallback, Undefined without a match *)
PartialMatch(text) ==
  With(text, LAMBDA s :
    With({p \in 1..Len(s) : SubSeq(s, p, p) = "{" /\ PartialEnd(s, p) # 0}, LAMBDA starts :
      IF starts = {} THEN Undefined ELSE SubSeq(s, First(starts), PartialEnd(s, First(starts)))))

(***************************************************************************)
(* normaliseResult                                                         *)
(***************************************************************************)
EmptyResult == [fileEdges |-> <<>>, functionEdges |-> <<>>, notes |-> <<>>]

(* working[key]; a missing property reads as null, which the code treats   *)
(* as it treats undefined                                                  *)
Property(j, key) == IF j.t = "object" /\ MapHas(j.v, key) THEN MapGet(j.v, key) ELSE JNull

(* working[key] when it is a string, Undefined otherwise *)
StringProperty(j, key) ==
  With(Property(j, key), LAMBDA value : IF value.t = "string" THEN value.v ELSE Undefined)

(* Array.isArray(working[key]) ? working[key] : [] *)
ArrayProperty(j, key) ==
  With(Property(j, key), LAMBDA value : IF value.t = "array" THEN value.v ELSE <<>>)

(* the fields toFileEdge and toFunctionEdge read from a parsed element *)
rawFileEdge(j) ==
  [source |-> StringProperty(j, "source"), target |-> StringProperty(j, "target"),
   relationship |-> StringProperty(j, "relationship"), confidence |-> StringProperty(j, "confidence")]

rawFunctionEdge(j) ==
  [source |-> [filePath |-> StringProperty(Property(j, "source"), "filePath"),
               symbol |-> StringProperty(Property(j, "source"), "symbol")],
   target |-> [filePath |-> StringProperty(Property(j, "target"), "filePath"),
               symbol |-> StringProperty(Property(j, "target"), "symbol")],
   relationship |-> StringProperty(j, "relationship"), confidence |-> StringProperty(j, "confidence"),
   reason |-> StringProperty(j, "reason")]

(* .map(...).filter(Boolean) over sequences of zero or one edge *)
Kept(mapped) ==
  With(SelectSeq(mapped, LAMBDA e : Len(e) > 0), LAMBDA kept : [i \in 1..Len(kept) |-> kept[i][1]])

normaliseResult(payload) ==
  With(payload, LAMBDA working :
    IF working.t # "object" THEN EmptyResult
    ELSE With(<<ArrayProperty(working, "notes"), ArrayProperty(working, "fileEdges"),
                ArrayProperty(working, "functionEdges")>>,
              LAMBDA arrays :
                [notes |-> With(SelectSeq(arrays[1], LAMBDA note : note.t = "string"),
                                LAMBDA notes : [i \in 1..Len(notes) |-> notes[i].v]),
                 fileEdges |-> Kept([i \in 1..Len(arrays[2]) |-> toFileEdge(rawFileEdge(arrays[2][i]))]),
                 functionEdges |->
                   Kept([i \in 1..Len(arrays[3]) |-> toFunctionEdge(rawFunctionEdge(arrays[3][i]))])]))

(* what inferRelationshipsWithLLM returns for the content jsonText *)
parseResponse(jsonText) ==
  With(cleanResponse(jsonText), LAMBDA cleanJsonText :
    With(JSONParse(cleanJsonText), LAMBDA parsed :
      IF parsed.ok THEN normaliseResult(parsed.val)
      ELSE With(PartialMatch(cleanJsonText), LAMBDA partialMatch :
             IF partialMatch = Undefined THEN EmptyResult
             ELSE With(JSONParse(partialMatch), LAMBDA partial :
                    IF partial.ok THEN normaliseResult(partial.val) ELSE EmptyResult))))

(* enhanceWithLLM has not been called *)
NoEnhance ==
  [stage |-> "none", nodes |-> <<>>, edges |-> <<>>, digests |-> <<>>, requests |-> 0,
   apiCallCount |-> 0, result |-> <<>>]

(* analyzeCodeFromFiles has not been called *)
NoPool ==
  [stage |-> "none", totalFiles |-> 0, index |-> 0, processedCount |-> 0, results |-> <<>>,
   claimedBy |-> <<>>, writtenBy |-> <<>>, workers |-> <<>>, fileNodes |-> <<>>]

(* no session of the analyze route is open *)
NoSession ==
  [stage |-> "none", progress |-> "", result |-> FALSE, error |-> "", calls |-> 0, clock |-> 0,
   lastProgressUpdate |-> 0, writes |-> {}, final |-> [at |-> "none", progress |-> ""],
   client |-> "none", shown |-> ""]

(* checkCache has not been called *)
NoCacheCheck ==
  [stage |-> "none", repoUrl |-> "",
   entry |-> [exists |-> FALSE, commitHash |-> Undefined, analysisResult |-> ""],
   now |-> 0, head |-> "", memo |-> [exists |-> FALSE, sha |-> Undefined, timestamp |-> 0],
   found |-> FALSE, timeSinceLastUpdate |-> 0, latestCommit |-> Undefined, returned |-> "",
   checks |-> 0, ticks |-> 0]

(* no request of the user is known *)
NoRate ==
  [stats |-> [exists |-> FALSE, newRequestsUsed |-> 0, totalRequests |-> 0], history |-> {},
   earlier |-> 0, created |-> {}, requests |-> <<>>, overlapped |-> FALSE, failed |-> FALSE]

(* no reply is being read *)
NoReply ==
  [stage |-> "none", payload |-> "", wrapper |-> "", comma |-> 0, content |-> "", text |-> "",
   parsed |-> JNull, result |-> EmptyResult]

(***************************************************************************)
(* enrichRelationshipsWithLLM: the merge of one proposed edge              *)
(***************************************************************************)
(* the comparison without lowercasing *)
fileEdgeKind_caseSensitive(relationship) ==
  IF relationship = "imports" THEN "imports" ELSE "llm-reference"

fileEdgeKind(relationship) ==
  IF ToLowerCase(relationship) = "imports" THEN "imports" ELSE "llm-reference"

functionEdgeKind(relationship) ==
  LET r == ToLowerCase(relationship)
  IN IF Includes(r, "call") \/ Includes(r, "invoke") THEN "invokes" ELSE "llm-reference"

(* the merge without the check that both endpoints are parsed files *)
mergeFileEdge_unchecked(cx, edge) ==
  LET key == edgeKey(edge.source, edge.target)
  IN IF MapHas(cx.fileEdges, key)
       THEN LET i == MapIndex(cx.fileEdges, key)
            IN [ctx |-> IF ~Truthy(cx.fileEdges[i].value.confidence)
                          THEN [cx EXCEPT !.fileEdges[i].value.confidence = edge.confidence]
                          ELSE cx,
                added |-> FALSE]
     ELSE [ctx |-> [cx EXCEPT !.fileEdges =
                      MapSet(@, key, [source |-> edge.source, target |-> edge.target,
                                      kind |-> fileEdgeKind(edge.relationship), sourceType |-> "llm",
                                      confidence |-> edge.confidence, reason |-> Undefined])],
           added |-> TRUE]

(* the body of the loop over result.fileEdges; added tells whether the     *)
(* edge was stored as a new one                                            *)
mergeFileEdge(cx, edge) ==
  LET filePaths == Range(MapKeys(cx.files))
      key == edgeKey(edge.source, edge.target)
  IN IF edge.source \notin filePaths \/ edge.target \notin filePaths
       THEN [ctx |-> cx, added |-> FALSE]
     ELSE IF MapHas(cx.fileEdges, key)
       THEN LET i == MapIndex(cx.fileEdges, key)
            IN [ctx |-> IF ~Truthy(cx.fileEdges[i].value.confidence)
                          THEN [cx EXCEPT !.fileEdges[i].value.confidence = edge.confidence]
                          ELSE cx,
                added |-> FALSE]
     ELSE [ctx |-> [cx EXCEPT !.fileEdges =
                      MapSet(@, key, [source |-> edge.source, target |-> edge.target,
                                      kind |-> fileEdgeKind(edge.relationship), sourceType |-> "llm",
                                      confidence |-> edge.confidence, reason |-> Undefined])],
           added |-> TRUE]

(* the keys under which functionLookup stores function k of file fi *)
lookupIdentifiers(analysis, fn) ==
  SetAddAll(<<>>,
    <<fn.id>>
      \o (IF Truthy(fn.exportName) THEN <<analysis.path \o ":" \o fn.exportName>> ELSE <<>>)
      \o (IF Truthy(fn.name) THEN <<analysis.path \o ":" \o fn.name>> ELSE <<>>)
      \o <<analysis.path \o ":" \o (IF fn.exportName # Undefined THEN fn.exportName ELSE fn.name)>>)

RECURSIVE setAll(_, _, _)
setAll(m, keys, v) ==
  IF Len(keys) = 0 THEN m
  ELSE With(MapSet(m, Head(keys), v), LAMBDA next : setAll(next, Tail(keys), v))

setIfAbsent(m, k, v) == IF Truthy(k) /\ ~MapHas(m, k) THEN MapSet(m, k, v) ELSE m

RECURSIVE functionLookupFrom(_, _, _, _)
functionLookupFrom(m, cx, fi, k) ==
  IF fi > Len(cx.files) THEN m
  ELSE IF k > Len(cx.files[fi].value.functions) THEN functionLookupFrom(m, cx, fi + 1, 1)
  ELSE LET analysis == cx.files[fi].value
           fn == analysis.functions[k]
           ref == [file |-> fi, fn |-> k]
       IN With(setAll(m, lookupIdentifiers(analysis, fn), ref), LAMBDA m1 :
          With(setIfAbsent(m1, fn.exportName, ref), LAMBDA m2 :
          With(setIfAbsent(m2, fn.name, ref), LAMBDA m3 :
          functionLookupFrom(m3, cx, fi, k + 1))))

functionLookup(cx) == functionLookupFrom(<<>>, cx, 1, 1)

(* the merge with the proposal's confidence stored over a present one *)
mergeFunctionEdge_overwriteConfidence(cx, edge) ==
  With(functionLookup(cx), LAMBDA lookup :
  LET sourceKey == edge.source.filePath \o ":" \o edge.source.symbol
      targetKey == edge.target.filePath \o ":" \o edge.target.symbol
  IN IF ~MapHas(lookup, sourceKey) \/ ~MapHas(lookup, targetKey)
       THEN [ctx |-> cx, added |-> FALSE]
     ELSE
       LET s == MapGet(lookup, sourceKey)
           t == MapGet(lookup, targetKey)
           cx1 == [cx EXCEPT !.files[s.file].value.functions[s.fn].include = TRUE]
           cx2 == [cx1 EXCEPT !.files[t.file].value.functions[t.fn].include = TRUE]
           sourceId == cx.files[s.file].value.functions[s.fn].id
           targetId == cx.files[t.file].value.functions[t.fn].id
           key == edgeKey(sourceId, targetId)
       IN IF MapHas(cx2.functionEdges, key)
            THEN LET i == MapIndex(cx2.functionEdges, key)
                     existing == cx2.functionEdges[i].value
                     reason == IF Truthy(edge.reason)
                                 THEN (IF Truthy(existing.reason)
                                         THEN existing.reason \o " " \o edge.reason
                                         ELSE edge.reason)
                                 ELSE existing.reason
                 IN [ctx |-> [cx2 EXCEPT !.functionEdges[i].value.confidence = edge.confidence,
                                         !.functionEdges[i].value.reason = reason],
                     added |-> FALSE]
            ELSE [ctx |-> [cx2 EXCEPT !.functionEdges =
                             MapSet(@, key, [source |-> sourceId, target |-> targetId,
                                             kind |-> functionEdgeKind(edge.relationship),
                                             sourceType |-> "llm",
                                             confidence |-> edge.confidence,
                                             reason |-> edge.reason])],
                  added |-> TRUE])

(* the body of the loop over result.functionEdges *)
(* the merge that leaves the include flags of the two functions alone *)
mergeFunctionEdge_noInclude(cx, edge) ==
  With(functionLookup(cx), LAMBDA lookup :
  LET sourceKey == edge.source.filePath \o ":" \o edge.source.symbol
      targetKey == edge.target.filePath \o ":" \o edge.target.symbol
  IN IF ~MapHas(lookup, sourceKey) \/ ~MapHas(lookup, targetKey)
       THEN [ctx |-> cx, added |-> FALSE]
     ELSE
       LET s == MapGet(lookup, sourceKey)
           t == MapGet(lookup, targetKey)
           cx1 == cx
           cx2 == cx1
           sourceId == cx.files[s.file].value.functions[s.fn].id
           targetId == cx.files[t.file].value.functions[t.fn].id
           key == edgeKey(sourceId, targetId)
       IN IF MapHas(cx2.functionEdges, key)
            THEN LET i == MapIndex(cx2.functionEdges, key)
                     existing == cx2.functionEdges[i].value
                     confidence == IF ~Truthy(existing.confidence) THEN edge.confidence
                                   ELSE existing.confidence
                     reason == IF Truthy(edge.reason)
                                 THEN (IF Truthy(existing.reason)
                                         THEN existing.reason \o " " \o edge.reason
                                         ELSE edge.reason)
                                 ELSE existing.reason
                 IN [ctx |-> [cx2 EXCEPT !.functionEdges[i].value.confidence = confidence,
                                         !.functionEdges[i].value.reason = reason],
                     added |-> FALSE]
            ELSE [ctx |-> [cx2 EXCEPT !.functionEdges =
                             MapSet(@, key, [source |-> sourceId, target |-> targetId,
                                             kind |-> functionEdgeKind(edge.relationship),
                                             sourceType |-> "llm",
                                             confidence |-> edge.confidence,
                                             reason |-> edge.reason])],
                  added |-> TRUE])

mergeFunctionEdge(cx, edge) ==
  With(functionLookup(cx), LAMBDA lookup :
  LET sourceKey == edge.source.filePath \o ":" \o edge.source.symbol
      targetKey == edge.target.filePath \o ":" \o edge.target.symbol
  IN IF ~MapHas(lookup, sourceKey) \/ ~MapHas(lookup, targetKey)
       THEN [ctx |-> cx, added |-> FALSE]
     ELSE
       LET s == MapGet(lookup, sourceKey)
           t == MapGet(lookup, targetKey)
           cx1 == [cx EXCEPT !.files[s.file].value.functions[s.fn].include = TRUE]
           cx2 == [cx1 EXCEPT !.files[t.file].value.functions[t.fn].include = TRUE]
           sourceId == cx.files[s.file].value.functions[s.fn].id
           targetId == cx.files[t.file].value.functions[t.fn].id
           key == edgeKey(sourceId, targetId)
       IN IF MapHas(cx2.functionEdges, key)
            THEN LET i == MapIndex(cx2.functionEdges, key)
                     existing == cx2.functionEdges[i].value
                     confidence == IF ~Truthy(existing.confidence) THEN edge.confidence
                                   ELSE existing.confidence
                     reason == IF Truthy(edge.reason)
                                 THEN (IF Truthy(existing.reason)
                                         THEN existing.reason \o " " \o edge.reason
                                         ELSE edge.reason)
                                 ELSE existing.reason
                 IN [ctx |-> [cx2 EXCEPT !.functionEdges[i].value.confidence = confidence,
                                         !.functionEdges[i].value.reason = reason],
                     added |-> FALSE]
            ELSE [ctx |-> [cx2 EXCEPT !.functionEdges =
                             MapSet(@, key, [source |-> sourceId, target |-> targetId,
                                             kind |-> functionEdgeKind(edge.relationship),
                                             sourceType |-> "llm",
                                             confidence |-> edge.confidence,
                                             reason |-> edge.reason])],
                  added |-> TRUE])

plural(n) == IF n = 1 THEN "" ELSE "s"

llmSummary(nFile, nFunction) ==
  "LLM inferred " \o ToString(nFile) \o " file relationship" \o plural(nFile)
    \o " and " \o ToString(nFunction) \o " function relationship" \o plural(nFunction) \o "."

(***************************************************************************)
(* The response of analyzeRepositoryGraph                                  *)
(***************************************************************************)
repoLabel == "repo"

(* the directories without the concatenated root *)
directories_noRoot == directoryEntries

directories == SetAdd(directoryEntries, ".")

directoryNode(relPath) ==
  LET isRoot == relPath = "." \/ relPath = ""
      displayPath == IF isRoot THEN "." ELSE relPath
  IN [id |-> "dir:" \o displayPath,
      label |-> (IF isRoot THEN repoLabel ELSE posixBasename(relPath)) \o "/",
      path |-> displayPath, kind |-> "directory"]

fileNode(rel) == [id |-> rel, label |-> posixBasename(rel), path |-> rel, kind |-> "file"]

graphEdge(edge) ==
  [id |-> edge.source \o "->" \o edge.target, source |-> edge.source, target |-> edge.target,
   kind |-> edge.kind, sourceType |-> edge.sourceType, confidence |-> edge.confidence,
   reason |-> edge.reason]

functionNode(fn) ==
  [id |-> fn.id, label |-> IF fn.exportName # Undefined THEN fn.exportName ELSE fn.name,
   filePath |-> fn.filePath, kind |-> "function", exportName |-> fn.exportName, loc |-> fn.loc]

(* the loop that emits one node per included function id *)
RECURSIVE functionNodesFrom(_, _, _, _)
functionNodesFrom(nodes, cx, fi, k) ==
  IF fi > Len(cx.files) THEN nodes
  ELSE IF k > Len(cx.files[fi].value.functions) THEN functionNodesFrom(nodes, cx, fi + 1, 1)
  ELSE LET fn == cx.files[fi].value.functions[k]
       IN IF ~fn.include \/ (\E n \in 1..Len(nodes) : nodes[n].id = fn.id)
            THEN functionNodesFrom(nodes, cx, fi, k + 1)
            ELSE functionNodesFrom(Append(nodes, functionNode(fn)), cx, fi, k + 1)

functionNodes(cx) == functionNodesFrom(<<>>, cx, 1, 1)

buildResponse(cx) ==
  LET parsedFileNodes == Range(MapKeys(cx.files))
      directoryNodes == [i \in 1..Len(directories) |-> directoryNode(directories[i])]
      parsed == SelectSeq(files, LAMBDA rel : rel \in parsedFileNodes)
  IN [status |-> "ok", error |-> "",
      fileNodes |-> directoryNodes \o [i \in 1..Len(parsed) |-> fileNode(parsed[i])],
      fileEdges |-> [i \in 1..Len(cx.fileEdges) |-> graphEdge(cx.fileEdges[i].value)],
      functionNodes |-> functionNodes(cx),
      functionEdges |-> [i \in 1..Len(cx.functionEdges) |-> graphEdge(cx.functionEdges[i].value)],
      warnings |-> cx.warnings]

(***************************************************************************)
(* analyzeRepositoryGraph, step by step                                    *)
(***************************************************************************)
parseTargets == SelectSeq(files, LAMBDA rel : extname(rel) \in Range(SUPPORTED_EXTENSIONS))

Repositories ==
  {SelectSeq(RepoUniverse, LAMBDA rel : rel \in S) :
     S \in {T \in SUBSET Range(RepoUniverse) : Cardinality(T) <= MaxFiles}}

Init ==
  /\ files \in Repositories
  /\ directoryEntries = DirectoriesOf(files)
  /\ tsconfigPaths \in RepoAliasTables
  /\ apiKey \in BOOLEAN
  /\ pc = "start"
  /\ pending = {}
  /\ ctx = EmptyCtx
  /\ candidateCache = <<>>
  /\ llm = NoLLM
  /\ response = NoResponse
  /\ lastResolve = NoResolve
  /\ pool = NoPool
  /\ enhance = NoEnhance
  /\ reply = NoReply
  /\ session = NoSession
  /\ cacheCheck = NoCacheCheck
  /\ rate = NoRate

(* the scan: an empty repository is rejected, otherwise one analyzeFile    *)
(* promise is started per parse target                                     *)
Scan ==
  /\ pc = "start"
  /\ IF Len(files) = 0
       THEN /\ pc' = "failed"
            /\ response' = [NoResponse EXCEPT !.status = "error",
                                              !.error = "No files were found in the repository."]
            /\ pending' = pending
       ELSE /\ pc' = "analyze"
            /\ pending' = Range(parseTargets)
            /\ response' = response
  /\ UNCHANGED <<files, directoryEntries, tsconfigPaths, apiKey, ctx, candidateCache, llm, lastResolve, reply, enhance, pool, session, cacheCheck, rate>>

(* the settling without the warning of the catch handler *)
AnalyzeFileSettled_silent(rel) ==
  /\ pc = "analyze"
  /\ rel \in pending
  /\ pending' = pending \ {rel}
  /\ IF Source(rel) = SyntaxError
       THEN ctx' = ctx
       ELSE ctx' = [ctx EXCEPT !.files = MapSet(@, rel, analyzeFile(rel, Source(rel)))]
  /\ UNCHANGED <<files, directoryEntries, tsconfigPaths, apiKey, pc, candidateCache, llm, response, lastResolve, reply, enhance, pool, session, cacheCheck, rate>>

(* one analyzeFile promise settles: a failure is caught and becomes a      *)
(* warning, a success is stored in ctx.files                               *)
AnalyzeFileSettled(rel) ==
  /\ pc = "analyze"
  /\ rel \in pending
  /\ pending' = pending \ {rel}
  /\ IF Source(rel) = SyntaxError
       THEN ctx' = [ctx EXCEPT !.warnings = Append(@, "Failed to analyze " \o rel \o ": Unexpected token")]
       ELSE ctx' = [ctx EXCEPT !.files = MapSet(@, rel, analyzeFile(rel, Source(rel)))]
  /\ UNCHANGED <<files, directoryEntries, tsconfigPaths, apiKey, pc, candidateCache, llm, response, lastResolve, reply, enhance, pool, session, cacheCheck, rate>>

(* the step without the no-parsed-files warning *)
ResolveImports_noWarning ==
  /\ pc = "analyze"
  /\ pending = {}
  /\ LET c == resolveImports([ctx |-> ctx, cache |-> candidateCache], fileSet, tsconfigPaths)
     IN /\ ctx' = c.ctx
        /\ candidateCache' = c.cache
  /\ pc' = "exports"
  /\ UNCHANGED <<files, directoryEntries, tsconfigPaths, apiKey, pending, llm, response, lastResolve, reply, enhance, pool, session, cacheCheck, rate>>

(* after Promise.all: the no-parsed-files warning, then resolveImports *)
(* the resolution started without the join *)
ResolveImports_early ==
  /\ pc = "analyze"
  /\ LET cx == IF Len(ctx.files) = 0
                 THEN [ctx EXCEPT !.warnings = Append(@,
                         "No supported source files were parsed. File graph includes nodes without edges.")]
                 ELSE ctx
         c == resolveImports([ctx |-> cx, cache |-> candidateCache], fileSet, tsconfigPaths)
     IN /\ ctx' = c.ctx
        /\ candidateCache' = c.cache
  /\ pc' = "exports"
  /\ UNCHANGED <<files, directoryEntries, tsconfigPaths, apiKey, pending, llm, response, lastResolve, reply, enhance, pool, session, cacheCheck, rate>>

ResolveImports ==
  /\ pc = "analyze"
  /\ pending = {}
  /\ LET cx == IF Len(ctx.files) = 0
                 THEN [ctx EXCEPT !.warnings = Append(@,
                         "No supported source files were parsed. File graph includes nodes without edges.")]
                 ELSE ctx
         c == resolveImports([ctx |-> cx, cache |-> candidateCache], fileSet, tsconfigPaths)
     IN /\ ctx' = c.ctx
        /\ candidateCache' = c.cache
  /\ pc' = "exports"
  /\ UNCHANGED <<files, directoryEntries, tsconfigPaths, apiKey, pending, llm, response, lastResolve, reply, enhance, pool, session, cacheCheck, rate>>

CollectFunctionExports ==
  /\ pc = "exports"
  /\ ctx' = collectFunctionExports(ctx)
  /\ pc' = "edges"
  /\ UNCHANGED <<files, directoryEntries, tsconfigPaths, apiKey, pending, candidateCache, llm, response, lastResolve, reply, enhance, pool, session, cacheCheck, rate>>

CollectFunctionEdges ==
  /\ pc = "edges"
  /\ ctx' = collectFunctionEdges(ctx)
  /\ pc' = "enrich"
  /\ UNCHANGED <<files, directoryEntries, tsconfigPaths, apiKey, pending, candidateCache, llm, response, lastResolve, reply, enhance, pool, session, cacheCheck, rate>>

(* the skip without the informational warning *)
EnrichSkipped_silent ==
  /\ pc = "enrich"
  /\ ~apiKey \/ Len(ctx.files) = 0
  /\ ctx' = ctx
  /\ llm' = [llm EXCEPT !.outcome = "null"]
  /\ pc' = "unresolved"
  /\ UNCHANGED <<files, directoryEntries, tsconfigPaths, apiKey, pending, candidateCache, response, lastResolve, reply, enhance, pool, session, cacheCheck, rate>>

(* inferRelationshipsWithLLM returns null: no key or no digests *)
EnrichSkipped ==
  /\ pc = "enrich"
  /\ ~apiKey \/ Len(ctx.files) = 0
  /\ ctx' = IF ~apiKey
              THEN [ctx EXCEPT !.warnings = Append(@, "Set OPENAI_API_KEY to enable LLM-inferred relationships.")]
              ELSE ctx
  /\ llm' = [llm EXCEPT !.outcome = "null"]
  /\ pc' = "unresolved"
  /\ UNCHANGED <<files, directoryEntries, tsconfigPaths, apiKey, pending, candidateCache, response, lastResolve, reply, enhance, pool, session, cacheCheck, rate>>

(* inferRelationshipsWithLLM calls fetch and awaits the response; the call *)
(* carries no timeout or abort signal                                      *)
EnrichRequested ==
  /\ pc = "enrich"
  /\ apiKey /\ Len(ctx.files) > 0
  /\ llm' = [llm EXCEPT !.requests = @ + 1]
  /\ pc' = "awaitLLM"
  /\ UNCHANGED <<files, directoryEntries, tsconfigPaths, apiKey, pending, ctx, candidateCache, response, lastResolve, reply, enhance, pool, session, cacheCheck, rate>>

(* fetch rejects, the status is not ok or the response has no content:     *)
(* inferRelationshipsWithLLM throws; the catch block records a warning     *)
EnrichFailed ==
  /\ pc = "awaitLLM"
  /\ \E message \in LLMErrors :
       ctx' = [ctx EXCEPT !.warnings = Append(@, "LLM relationship inference failed: " \o message)]
  /\ llm' = [llm EXCEPT !.outcome = "thrown"]
  /\ pc' = "unresolved"
  /\ UNCHANGED <<files, directoryEntries, tsconfigPaths, apiKey, pending, candidateCache, response, lastResolve, reply, enhance, pool, session, cacheCheck, rate>>

(* the response has content: inferRelationshipsWithLLM returns the         *)
(* normalised payload, or the empty result when the content could not be   *)
(* parsed as JSON                                                          *)
EnrichAnswered ==
  /\ pc = "awaitLLM"
  /\ \E outcome \in {"empty", "normalised"} : llm' = [llm EXCEPT !.outcome = outcome]
  /\ pc' = "mergeFileEdges"
  /\ UNCHANGED <<files, directoryEntries, tsconfigPaths, apiKey, pending, ctx, candidateCache, response, lastResolve, reply, enhance, pool, session, cacheCheck, rate>>

(* one iteration of the loop over result.fileEdges; raw is the next        *)
(* element of the payload's fileEdges array                                *)
MergeFileEdge(raw) ==
  /\ pc = "mergeFileEdges"
  /\ llm.outcome = "normalised"
  /\ llm.fileEdgesSeen < MaxLLMFileEdges
  /\ LET edges == toFileEdge(raw)
     IN IF Len(edges) = 0
          THEN /\ ctx' = ctx
               /\ llm' = [llm EXCEPT !.fileEdgesSeen = @ + 1, !.level = "none",
                                     !.proposal = [source |-> "", target |-> ""]]
          ELSE LET m == mergeFileEdge(ctx, edges[1])
               IN /\ ctx' = m.ctx
                  /\ llm' = [llm EXCEPT !.fileEdgesSeen = @ + 1,
                                        !.llmFileEdges = IF m.added THEN @ + 1 ELSE @,
                                        !.level = "file", !.proposal = edges[1]]
  /\ UNCHANGED <<files, directoryEntries, tsconfigPaths, apiKey, pc, pending, candidateCache, response, lastResolve, reply, enhance, pool, session, cacheCheck, rate>>

FileEdgesMerged ==
  /\ pc = "mergeFileEdges"
  /\ pc' = "mergeFunctionEdges"
  /\ llm' = [llm EXCEPT !.level = "none", !.proposal = [source |-> "", target |-> ""]]
  /\ UNCHANGED <<files, directoryEntries, tsconfigPaths, apiKey, pending, ctx, candidateCache, response, lastResolve, reply, enhance, pool, session, cacheCheck, rate>>

(* the iteration with the edge it touched stored as the proposal, kind and *)
(* provenance included                                                     *)
MergeFunctionEdge_overwrite(raw) ==
  /\ pc = "mergeFunctionEdges"
  /\ llm.outcome = "normalised"
  /\ llm.functionEdgesSeen < MaxLLMFunctionEdges
  /\ LET edges == toFunctionEdge(raw)
     IN IF Len(edges) = 0
          THEN /\ ctx' = ctx
               /\ llm' = [llm EXCEPT !.functionEdgesSeen = @ + 1, !.level = "none",
                                     !.proposal = [source |-> "", target |-> ""]]
          ELSE LET m == mergeFunctionEdge(ctx, edges[1])
                   changed == {i \in 1..Len(ctx.functionEdges) : m.ctx.functionEdges[i] # ctx.functionEdges[i]}
               IN /\ ctx' = [m.ctx EXCEPT !.functionEdges =
                               [i \in 1..Len(m.ctx.functionEdges) |->
                                  IF i \in changed
                                    THEN [m.ctx.functionEdges[i] EXCEPT
                                            !.value.kind = functionEdgeKind(edges[1].relationship),
                                            !.value.sourceType = "llm"]
                                    ELSE m.ctx.functionEdges[i]]]
                  /\ llm' = [llm EXCEPT !.functionEdgesSeen = @ + 1,
                                        !.llmFunctionEdges = IF m.added THEN @ + 1 ELSE @,
                                        !.level = "function", !.proposal = edges[1]]
  /\ UNCHANGED <<files, directoryEntries, tsconfigPaths, apiKey, pc, pending, candidateCache, response, lastResolve, reply, enhance, pool, session, cacheCheck, rate>>

(* one iteration of the loop over result.functionEdges *)
MergeFunctionEdge(raw) ==
  /\ pc = "mergeFunctionEdges"
  /\ llm.outcome = "normalised"
  /\ llm.functionEdgesSeen < MaxLLMFunctionEdges
  /\ LET edges == toFunctionEdge(raw)
     IN IF Len(edges) = 0
          THEN /\ ctx' = ctx
               /\ llm' = [llm EXCEPT !.functionEdgesSeen = @ + 1, !.level = "none",
                                     !.proposal = [source |-> "", target |-> ""]]
          ELSE LET m == mergeFunctionEdge(ctx, edges[1])
               IN /\ ctx' = m.ctx
                  /\ llm' = [llm EXCEPT !.functionEdgesSeen = @ + 1,
                                        !.llmFunctionEdges = IF m.added THEN @ + 1 ELSE @,
                                        !.level = "function", !.proposal = edges[1]]
  /\ UNCHANGED <<files, directoryEntries, tsconfigPaths, apiKey, pc, pending, candidateCache, response, lastResolve, reply, enhance, pool, session, cacheCheck, rate>>

(* the end of enrichRelationshipsWithLLM: notes and the summary warning *)
FunctionEdgesMerged ==
  /\ pc = "mergeFunctionEdges"
  /\ \E notes \in (IF llm.outcome = "normalised" THEN LLMNotes ELSE {<<>>}) :
       ctx' = [ctx EXCEPT !.warnings =
                 @ \o [i \in 1..Len(notes) |-> "LLM: " \o notes[i]]
                   \o (IF llm.llmFileEdges > 0 \/ llm.llmFunctionEdges > 0
                         THEN <<llmSummary(llm.llmFileEdges, llm.llmFunctionEdges)>>
                         ELSE <<>>)]
  /\ pc' = "unresolved"
  /\ llm' = [llm EXCEPT !.level = "none", !.proposal = [source |-> "", target |-> ""]]
  /\ UNCHANGED <<files, directoryEntries, tsconfigPaths, apiKey, pending, candidateCache, response, lastResolve, reply, enhance, pool, session, cacheCheck, rate>>

(* collectUnresolvedWarnings and the construction of the response *)
Respond ==
  /\ pc = "unresolved"
  /\ ctx' = collectUnresolvedWarnings(ctx)
  /\ response' = buildResponse(ctx')
  /\ pc' = "done"
  /\ UNCHANGED <<files, directoryEntries, tsconfigPaths, apiKey, pending, candidateCache, llm, lastResolve, reply, enhance, pool, session, cacheCheck, rate>>

Next ==
  \/ Scan
  \/ \E rel \in Range(RepoUniverse) : AnalyzeFileSettled(rel)
  \/ ResolveImports
  \/ CollectFunctionExports
  \/ CollectFunctionEdges
  \/ EnrichSkipped
  \/ EnrichRequested
  \/ EnrichFailed
  \/ EnrichAnswered
  \/ \E raw \in LLMFileProposals : MergeFileEdge(raw)
  \/ FileEdgesMerged
  \/ \E raw \in LLMFunctionProposals : MergeFunctionEdge(raw)
  \/ FunctionEdgesMerged
  \/ Respond

Spec == Init /\ [][Next]_vars

(***************************************************************************)
(* Properties of the edge collections                                      *)
(***************************************************************************)
UniqueEdges(edges) ==
  \A i \in 1..Len(edges), j \in 1..Len(edges) :
    i # j => /\ edges[i].key # edges[j].key
             /\ <<edges[i].value.source, edges[i].value.target>>
                  # <<edges[j].value.source, edges[j].value.target>>

UniqueIds(graphEdges) ==
  \A i \in 1..Len(graphEdges), j \in 1..Len(graphEdges) : i # j => graphEdges[i].id # graphEdges[j].id

(* a file with two import bindings that resolve to one target *)
RepeatedImport ==
  \E fi \in 1..Len(ctx.files) :
    \E b1 \in 1..Len(ctx.files[fi].value.imports), b2 \in 1..Len(ctx.files[fi].value.imports) :
      /\ b1 # b2
      /\ ctx.files[fi].value.imports[b1].resolved # Undefined
      /\ ctx.files[fi].value.imports[b1].resolved = ctx.files[fi].value.imports[b2].resolved

(* C1: the file-edge and the function-edge collection never hold two edges *)
(* with one (source, target) pair, and the ids source->target of the edges *)
(* of the response are pairwise distinct.                                  *)
C1_OneEdgePerPair ==
  /\ UniqueEdges(ctx.fileEdges)
  /\ UniqueEdges(ctx.functionEdges)
  /\ UniqueIds(response.fileEdges)
  /\ UniqueIds(response.functionEdges)

C1_Witness ==
  /\ pc = "done"
  /\ RepeatedImport
  /\ \E i \in 1..Len(response.fileEdges) :
       response.fileEdges[i].sourceType = "static" /\ response.fileEdges[i].confidence = "high"
  /\ \E i \in 1..Len(response.functionEdges) :
       /\ response.functionEdges[i].id = "src/main.ts::run->src/util.ts::helper"
       /\ response.functionEdges[i].reason = "r1"

EdgesPreserved(old, new) ==
  \A i \in 1..Len(old) :
    /\ MapHas(new, old[i].key)
    /\ MapGet(new, old[i].key).source = old[i].value.source
    /\ MapGet(new, old[i].key).target = old[i].value.target
    /\ MapGet(new, old[i].key).kind = old[i].value.kind
    /\ MapGet(new, old[i].key).sourceType = old[i].value.sourceType

(* C2: no step of the pipeline removes an edge or changes the kind or the  *)
(* provenance of an edge that exists: a later write by resolveImports,     *)
(* collectFunctionEdges or the enrichment keeps them.                      *)
C2_KindAndProvenanceKept ==
  [][/\ EdgesPreserved(ctx.fileEdges, ctx'.fileEdges)
     /\ EdgesPreserved(ctx.functionEdges, ctx'.functionEdges)]_vars

C2_Witness ==
  /\ pc = "mergeFunctionEdges"
  /\ llm.level = "function"
  /\ llm.proposal.relationship = "uses"
  /\ MapHas(ctx.functionEdges, "src/main.ts::run->src/util.ts::helper")
  /\ MapGet(ctx.functionEdges, "src/main.ts::run->src/util.ts::helper").kind = "imports"
  /\ MapGet(ctx.functionEdges, "src/main.ts::run->src/util.ts::helper").sourceType = "static"
  /\ MapGet(ctx.functionEdges, "src/main.ts::run->src/util.ts::helper").confidence = "low"

(***************************************************************************)
(* Properties of the enrichment                                            *)
(***************************************************************************)
(* a step that is one iteration of a merge loop *)
MergeStep ==
  /\ pc \in {"mergeFileEdges", "mergeFunctionEdges"}
  /\ pc' = pc
  /\ llm'.fileEdgesSeen + llm'.functionEdgesSeen = llm.fileEdgesSeen + llm.functionEdgesSeen + 1

(* the key of the edge a proposal stands for, Undefined when the proposal  *)
(* is dropped: an endpoint of a file proposal is no parsed file, or an     *)
(* endpoint of a function proposal names no FunctionRecord                 *)
proposalKey(cx, level, p) ==
  IF level = "file"
    THEN (IF {p.source, p.target} \subseteq Range(MapKeys(cx.files))
            THEN edgeKey(p.source, p.target) ELSE Undefined)
  ELSE LET lookup == functionLookup(cx)
           sourceKey == p.source.filePath \o ":" \o p.source.symbol
           targetKey == p.target.filePath \o ":" \o p.target.symbol
       IN IF MapHas(lookup, sourceKey) /\ MapHas(lookup, targetKey)
            THEN LET s == MapGet(lookup, sourceKey)
                     t == MapGet(lookup, targetKey)
                 IN edgeKey(cx.files[s.file].value.functions[s.fn].id,
                            cx.files[t.file].value.functions[t.fn].id)
            ELSE Undefined

(* what the statement "reason is filled in only if absent" allows *)
FilledIfAbsent(o, level, p) ==
  [o EXCEPT !.confidence = IF Truthy(o.confidence) THEN o.confidence ELSE p.confidence,
            !.reason = IF Truthy(o.reason) THEN o.reason
                       ELSE IF level = "function" /\ Truthy(p.reason) THEN p.reason
                       ELSE o.reason]

(* what the merge does: a reason that is present is extended *)
FilledOrAppended(o, level, p) ==
  [o EXCEPT !.confidence = IF Truthy(o.confidence) THEN o.confidence ELSE p.confidence,
            !.reason = IF level = "function" /\ Truthy(p.reason)
                         THEN (IF Truthy(o.reason) THEN o.reason \o " " \o p.reason ELSE p.reason)
                         ELSE o.reason]

(* the edges of one level before (old) and after (new) a merge of proposal *)
(* p whose key is key: Fill tells what becomes of the edge with that key   *)
MergeFrame(old, new, key, level, p, Fill(_, _, _)) ==
  /\ Len(new) >= Len(old)
  /\ MapHas(old, key) => Len(new) = Len(old)
  /\ \A i \in 1..Len(old) :
       /\ new[i].key = old[i].key
       /\ new[i].value = IF old[i].key = key THEN Fill(old[i].value, level, p) ELSE old[i].value

StepFrame(Fill(_, _, _)) ==
  MergeStep =>
    IF llm'.level = "file"
      THEN LET key == proposalKey(ctx, "file", llm'.proposal)
           IN /\ MergeFrame(ctx.fileEdges, ctx'.fileEdges, key, "file", llm'.proposal, Fill)
              /\ ctx'.functionEdges = ctx.functionEdges
    ELSE IF llm'.level = "function"
      THEN LET key == proposalKey(ctx, "function", llm'.proposal)
           IN /\ MergeFrame(ctx.functionEdges, ctx'.functionEdges, key, "function", llm'.proposal, Fill)
              /\ ctx'.fileEdges = ctx.fileEdges
    ELSE ctx' = ctx

NodeIds(cx) == LET nodes == functionNodes(cx) IN {nodes[n].id : n \in 1..Len(nodes)}

(* the ids of all FunctionRecords of the parsed files *)
RecordIds(cx) ==
  UNION {{cx.files[fi].value.functions[k].id : k \in 1..Len(cx.files[fi].value.functions)} :
           fi \in 1..Len(cx.files)}

ParsedFiles(cx) == Range(MapKeys(cx.files))

NewEdges(old, new) == {new[i].value : i \in {j \in 1..Len(new) : ~MapHas(old, new[j].key)}}

(* the FunctionRecords with the include flag left out *)
RecordsModuloInclude(cx) ==
  [fi \in 1..Len(cx.files) |->
     [k \in 1..Len(cx.files[fi].value.functions) |->
        [cx.files[fi].value.functions[k] EXCEPT !.include = FALSE]]]

(* C4 as stated: an edge is accepted only if both endpoints are nodes of   *)
(* the graph before the step, and no merge step introduces a node.         *)
C4_Original ==
  [][MergeStep =>
       LET before == NodeIds(ctx)
           after == NodeIds(ctx')
       IN /\ ParsedFiles(ctx') = ParsedFiles(ctx)
          /\ after \subseteq before
          /\ \A e \in NewEdges(ctx.fileEdges, ctx'.fileEdges) : {e.source, e.target} \subseteq ParsedFiles(ctx)
          /\ \A e \in NewEdges(ctx.functionEdges, ctx'.functionEdges) : {e.source, e.target} \subseteq before]_vars

(* C4, amended: a file edge is accepted only between two parsed files, a   *)
(* function edge only between two FunctionRecords of parsed files; a merge *)
(* step adds no file node and no FunctionRecord, and the function nodes it *)
(* adds are endpoints of the proposal it merged, which it marks included.  *)
C4_EndpointsKnown ==
  [][MergeStep =>
       LET before == NodeIds(ctx)
           after == NodeIds(ctx')
           records == RecordIds(ctx)
       IN /\ ParsedFiles(ctx') = ParsedFiles(ctx)
          /\ RecordsModuloInclude(ctx') = RecordsModuloInclude(ctx)
          /\ \A e \in NewEdges(ctx.fileEdges, ctx'.fileEdges) : {e.source, e.target} \subseteq ParsedFiles(ctx)
          /\ \A e \in NewEdges(ctx.functionEdges, ctx'.functionEdges) :
               /\ {e.source, e.target} \subseteq records
               /\ {e.source, e.target} \subseteq after
          /\ before \subseteq after
          /\ after \subseteq records
          /\ \A id \in after \ before :
               /\ llm'.level = "function"
               /\ \E e \in Range(MapValues(ctx'.functionEdges)) :
                    /\ edgeKey(e.source, e.target) = proposalKey(ctx, "function", llm'.proposal)
                    /\ id \in {e.source, e.target}]_vars

C4_Witness ==
  /\ pc = "mergeFunctionEdges"
  /\ llm.level = "function"
  /\ llm.proposal.source.symbol = "local"
  /\ MapHas(ctx.functionEdges, "src/main.ts::local->src/util.ts::mk")
  /\ "src/main.ts::local" \in NodeIds(ctx)
  /\ "src/main.ts::local" \in RecordIds(ctx)

(* the kind the statement gives to a label *)
ClaimedKind(relationship) ==
  LET r == ToLowerCase(relationship)
  IN IF Includes(r, "call") \/ Includes(r, "invoke") THEN "invokes"
     ELSE IF r = "imports" THEN "imports"
     ELSE "llm-reference"

(* the kinds the two merge loops give to a label *)
KindAtLevel(level, relationship) ==
  LET r == ToLowerCase(relationship)
  IN IF level = "file"
       THEN (IF r = "imports" THEN "imports" ELSE "llm-reference")
       ELSE (IF Includes(r, "call") \/ Includes(r, "invoke") THEN "invokes" ELSE "llm-reference")

NewEdgeKinds(Kind(_, _)) ==
  MergeStep =>
    /\ \A e \in NewEdges(ctx.fileEdges, ctx'.fileEdges) :
         /\ llm'.level = "file"
         /\ e.sourceType = "llm"
         /\ e.kind = Kind("file", llm'.proposal.relationship)
    /\ \A e \in NewEdges(ctx.functionEdges, ctx'.functionEdges) :
         /\ llm'.level = "function"
         /\ e.sourceType = "llm"
         /\ e.kind = Kind("function", llm'.proposal.relationship)

ClaimedKindAtLevel(level, relationship) == ClaimedKind(relationship)

(* C5 as stated: every new LLM edge, file- or function-level, has          *)
(* provenance llm and kind invokes if its label contains call or invoke,   *)
(* imports if its label is imports, llm-reference otherwise.               *)
C5_Original == [][NewEdgeKinds(ClaimedKindAtLevel)]_vars

(* C5, amended: every new LLM edge has provenance llm; a new file edge has *)
(* kind imports if its lowercased label is imports and llm-reference       *)
(* otherwise (never invokes); a new function edge has kind invokes if its  *)
(* lowercased label contains call or invoke and llm-reference otherwise    *)
(* (never imports).                                                        *)
C5_KindMapping == [][NewEdgeKinds(KindAtLevel)]_vars

C5_Witness ==
  /\ pc = "mergeFileEdges"
  /\ llm.level = "file"
  /\ llm.proposal.relationship = "Imports"
  /\ MapHas(ctx.fileEdges, "src/util.ts->src/main.ts")
  /\ MapGet(ctx.fileEdges, "src/util.ts->src/main.ts").kind = "imports"
  /\ MapGet(ctx.fileEdges, "src/util.ts->src/main.ts").sourceType = "llm"

(***************************************************************************)
(* Properties of the static function edges, read off the source text       *)
(***************************************************************************)
(* the import specifier that binds `name` in ast, with its module source *)
ImportBindingOf(ast, name) ==
  LET i == CHOOSE j \in 1..Len(ast) :
             /\ ast[j].type = "ImportDeclaration"
             /\ \E k \in 1..Len(ast[j].specifiers) : ast[j].specifiers[k].local = name
      k == CHOOSE n \in 1..Len(ast[i].specifiers) : ast[i].specifiers[n].local = name
  IN [source |-> ast[i].source, type |-> ast[i].specifiers[k].type,
      imported |-> ast[i].specifiers[k].imported]

(* the call sites of ast whose callee is bound by a named or default       *)
(* import and not shadowed by a local binding                              *)
ImportedCallSites(ast) ==
  {i \in 1..Len(ast) :
     /\ ast[i].type = "CallExpression"
     /\ ast[i].name # Undefined
     /\ bindingKind(ast, i, ast[i].name) = "module"
     /\ ImportBindingOf(ast, ast[i].name).type \in {"ImportSpecifier", "ImportDefaultSpecifier"}}

(* the module text exports a function under `name` *)
ExportsName(ast, name) ==
  \E e \in 1..Len(ast) :
    /\ ast[e].type = "ExportNamedDeclaration"
    /\ \/ /\ ast[e].declaration # 0
          /\ \/ /\ ast[ast[e].declaration].type \in {"FunctionDeclaration", "ClassDeclaration"}
                /\ ast[ast[e].declaration].name = name
             \/ \E d \in 1..Len(ast) :
                  /\ ast[d].type = "VariableDeclarator" /\ ast[d].parent = ast[e].declaration
                  /\ ast[d].name = name
                  /\ ast[d].declaration # 0
                  /\ ast[ast[d].declaration].type \in {"FunctionExpression", "ArrowFunctionExpression"}
       \/ \E k \in 1..Len(ast[e].specifiers) :
            /\ ast[e].specifiers[k].exported = name
            /\ \E f \in 1..Len(ast) :
                 /\ ast[f].type = "FunctionDeclaration" /\ ast[f].parent = 0
                 /\ ast[f].name = ast[e].specifiers[k].local

ExportsDefault(ast) == \E e \in 1..Len(ast) : ast[e].type = "ExportDefaultDeclaration"

(* the id of the function node that encloses node i of file rel *)
CallerIdOf(rel, ast, i) ==
  LET f == getFunctionParent(ast, i)
  IN IF f = 0 THEN rel \o "::(module)" ELSE rel \o "::" \o inferFunctionName(ast, f)

(* the call sites of the parsed files whose import resolves to a parsed    *)
(* file that exports the imported name or has a default export, each as    *)
(* the edge it stands for                                                  *)
ExpectedCallEdges ==
  UNION {
    LET ast == Source(rel)
    IN {LET b == ImportBindingOf(ast, ast[i].name)
            target == resolver(<<>>, fileSet, tsconfigPaths, rel, b.source).res
        IN IF target \in ParsedFiles(ctx)
                /\ (ExportsName(Source(target), b.imported) \/ ExportsDefault(Source(target)))
             THEN [source |-> CallerIdOf(rel, ast, i),
                   target |-> target \o "::" \o (IF ExportsName(Source(target), b.imported)
                                                   THEN b.imported ELSE "default")]
             ELSE [source |-> Undefined, target |-> Undefined]
        : i \in ImportedCallSites(ast)}
    : rel \in ParsedFiles(ctx)} \ {[source |-> Undefined, target |-> Undefined]}

ResponseNodeIds == {response.functionNodes[n].id : n \in 1..Len(response.functionNodes)}

(* C8 as stated: in the response, every call site whose callee is bound by *)
(* a named or default import that resolves to a file exporting the         *)
(* imported name (or a default) has its caller node, its target node and   *)
(* exactly one edge caller->target; a call to a local or shadowing binding *)
(* yields no function edge, so every static function edge stands for such  *)
(* a call site.                                                            *)
C8_Original ==
  pc = "done" =>
    /\ \A x \in ExpectedCallEdges :
         /\ x.source \in ResponseNodeIds
         /\ x.target \in ResponseNodeIds
         /\ Cardinality({n \in 1..Len(response.functionEdges) :
                           /\ response.functionEdges[n].source = x.source
                           /\ response.functionEdges[n].target = x.target}) = 1
    /\ \A n \in 1..Len(response.functionEdges) :
         response.functionEdges[n].sourceType = "static"
           => [source |-> response.functionEdges[n].source,
               target |-> response.functionEdges[n].target] \in ExpectedCallEdges

(***************************************************************************)
(* Properties of the files the analysis does not parse                     *)
(***************************************************************************)
Unsupported == {rel \in fileSet : extname(rel) \notin Range(SUPPORTED_EXTENSIONS)}

WithNoParsedWarning(cx) ==
  IF Len(cx.files) = 0
    THEN [cx EXCEPT !.warnings = Append(@,
            "No supported source files were parsed. File graph includes nodes without edges.")]
    ELSE cx

(* C9 as stated: a file with an unsupported extension yields no node and   *)
(* no warning, and what resolveImports records for the other files (file   *)
(* edges, resolved bindings, unresolved specifiers, warnings) is what it   *)
(* records when the unsupported files are not in the repository.           *)
C9_Original ==
  [][/\ (pc = "analyze" /\ pc' = "exports")
          => ctx' = resolveImports([ctx |-> WithNoParsedWarning(ctx), cache |-> <<>>],
                                   fileSet \ Unsupported, tsconfigPaths).ctx
     /\ pc' = "done"
          => /\ \A n \in 1..Len(response'.fileNodes) : response'.fileNodes[n].id \notin Unsupported
             /\ \A w \in 1..Len(response'.warnings), rel \in Unsupported :
                  response'.warnings[w] # "Failed to analyze " \o rel \o ": Unexpected token"]_vars

(***************************************************************************)
(* Properties of the degenerate inputs                                     *)
(***************************************************************************)
NoParsedWarning == "No supported source files were parsed. File graph includes nodes without edges."

OnlyDirectoryNodes ==
  /\ response.status = "ok"
  /\ \A n \in 1..Len(response.fileNodes) : response.fileNodes[n].kind = "directory"
  /\ Len(response.fileEdges) = 0
  /\ Len(response.functionNodes) = 0
  /\ Len(response.functionEdges) = 0
  /\ \E w \in 1..Len(response.warnings) : response.warnings[w] = NoParsedWarning

ResolverUniverse == <<"a/b", "a/b.ts", "a/b/index.ts", "app/lib/u.ts", "lib/u.ts", "src/lib/u.ts">>

ResolverFromPaths == {"a/x.ts"}

ResolverSpecifiers == {"./b", "../a/b", "./b.ts", "lib/u", "@/lib/u", "@/lib/u.js", "nope", ""}

(* a path cannot be a file and a directory at once *)
IsTree(S) == \A f \in S, g \in S : ~StartsWith(g, f \o "/")

ResolverRepositories ==
  {<<"a/x.ts">> \o SelectSeq(ResolverUniverse, LAMBDA rel : rel \in S) :
     S \in {T \in SUBSET Range(ResolverUniverse) : IsTree(T)}}

InitResolver ==
  /\ files \in ResolverRepositories
  /\ directoryEntries = DirectoriesOf(files)
  /\ tsconfigPaths \in AliasTables
  /\ apiKey = FALSE
  /\ pc = "resolver"
  /\ pending = {}
  /\ ctx = EmptyCtx
  /\ candidateCache = <<>>
  /\ llm = NoLLM
  /\ response = NoResponse
  /\ lastResolve = NoResolve
  /\ pool = NoPool
  /\ enhance = NoEnhance
  /\ reply = NoReply
  /\ session = NoSession
  /\ cacheCheck = NoCacheCheck
  /\ rate = NoRate

ResolveCall(fromPath, specifier) ==
  /\ pc = "resolver"
  /\ lastResolve.calls < MaxResolveCalls
  /\ LET r == resolver(candidateCache, fileSet, tsconfigPaths, fromPath, specifier)
     IN /\ candidateCache' = r.cache
        /\ lastResolve' = [fromPath |-> fromPath, specifier |-> specifier, res |-> r.res,
                           calls |-> lastResolve.calls + 1, sizeBefore |-> Len(candidateCache)]
  /\ UNCHANGED <<files, directoryEntries, tsconfigPaths, apiKey, pc, pending, ctx, llm, response, reply, enhance, pool, session, cacheCheck, rate>>

NextResolver == \E fromPath \in ResolverFromPaths, specifier \in ResolverSpecifiers : ResolveCall(fromPath, specifier)

SpecResolver == InitResolver /\ [][NextResolver]_vars

(***************************************************************************)
(* Properties of the resolver                                              *)
(***************************************************************************)
(* the probing order as the specification states it: the base path, the    *)
(* base path with each extension, the base path with each index file       *)
ProbeOrder(base) ==
  <<base,
    base \o ".ts", base \o ".tsx", base \o ".js", base \o ".jsx", base \o ".mjs", base \o ".cjs",
    base \o ".json",
    base \o "/index.ts", base \o "/index.tsx", base \o "/index.js", base \o "/index.jsx",
    base \o "/index.mjs", base \o "/index.cjs", base \o "/index.json">>

Probe(base) == FirstIn(ProbeOrder(base), fileSet)

(* the first defined element of a sequence of probe results *)
FirstDefined(rs) ==
  IF \E i \in 1..Len(rs) : rs[i] # Undefined
    THEN rs[CHOOSE i \in 1..Len(rs) : rs[i] # Undefined /\ \A j \in 1..(i - 1) : rs[j] = Undefined]
    ELSE Undefined

(* C6: every base path probed so far is memoised with the first element of *)
(* its probing order (literal, then extensions in list order, then index   *)
(* files) that is a known file; with a/b.ts and a/b/index.ts known and no  *)
(* file a/b, the specifier ./b from a/x.ts resolves to a/b.ts.             *)
C6_ProbingOrder ==
  /\ \A i \in 1..Len(candidateCache) : candidateCache[i].value = Probe(candidateCache[i].key)
  /\ (lastResolve.calls > 0 /\ StartsWith(lastResolve.specifier, "."))
       => lastResolve.res = Probe(posixNormalize(posixJoin(posixDirname(lastResolve.fromPath),
                                                          lastResolve.specifier)))
  /\ (/\ lastResolve.calls > 0
      /\ lastResolve.fromPath = "a/x.ts" /\ lastResolve.specifier = "./b"
      /\ "a/b.ts" \in fileSet /\ "a/b" \notin fileSet)
       => lastResolve.res = "a/b.ts"

C6_Witness ==
  /\ lastResolve.calls = 2
  /\ lastResolve.fromPath = "a/x.ts" /\ lastResolve.specifier = "./b"
  /\ {"a/b.ts", "a/b/index.ts"} \subseteq fileSet /\ "a/b" \notin fileSet
  /\ lastResolve.res = "a/b.ts"

(* the bases a non-relative specifier is probed at, in order: per matching *)
(* alias entry (table order) each target (listed order) joined with the    *)
(* part of the specifier the wildcard matched, then the root, then src/    *)
RECURSIVE AliasBases(_, _)
AliasBases(paths, specifier) ==
  IF Len(paths) = 0 THEN <<>>
  ELSE LET entry == Head(paths)
           matched == SubSeq(specifier, Len(entry.prefix) + 1, Len(specifier) - Len(entry.suffix))
       IN (IF StartsWith(specifier, entry.prefix)
             THEN [k \in 1..Len(entry.targets) |-> posixJoin(entry.targets[k], matched)]
             ELSE <<>>)
          \o AliasBases(Tail(paths), specifier)

ExpectedBases(paths, specifier) ==
  AliasBases(paths, specifier) \o <<posixJoin(".", specifier), posixJoin("src", specifier)>>

(* C7: a non-relative specifier resolves to the first hit among the alias  *)
(* probes, the root probe and the src/ probe, in that order, and is        *)
(* unresolved only when all miss; a specifier found at the root and under  *)
(* src/ resolves to the root file, one found through an alias and at the   *)
(* root resolves through the alias.                                        *)
C7_ResolutionOrder ==
  (lastResolve.calls > 0 /\ lastResolve.specifier # "" /\ ~StartsWith(lastResolve.specifier, "."))
    => LET bases == ExpectedBases(tsconfigPaths, lastResolve.specifier)
       IN /\ lastResolve.res = FirstDefined([k \in 1..Len(bases) |-> Probe(bases[k])])
          /\ (lastResolve.specifier = "lib/u" /\ tsconfigPaths = <<>> /\ "lib/u.ts" \in fileSet)
               => lastResolve.res = "lib/u.ts"
          /\ (/\ lastResolve.specifier = "lib/u" /\ Len(tsconfigPaths) = 2
              /\ "lib/u.ts" \in fileSet
              /\ "src/lib/u.ts" \in fileSet \/ "app/lib/u.ts" \in fileSet)
               => lastResolve.res = IF "src/lib/u.ts" \in fileSet THEN "src/lib/u.ts" ELSE "app/lib/u.ts"

C7_Witness ==
  /\ lastResolve.calls > 0
  /\ lastResolve.specifier = "lib/u"
  /\ Len(tsconfigPaths) = 2
  /\ {"lib/u.ts", "app/lib/u.ts"} \subseteq fileSet /\ "src/lib/u.ts" \notin fileSet
  /\ lastResolve.res = "app/lib/u.ts"

(***************************************************************************)
(* Properties of a per-file extraction that fails                          *)
(***************************************************************************)
FailedTargets == {rel \in Range(parseTargets) : Source(rel) = SyntaxError}

WarningsNaming(rel) ==
  {w \in 1..Len(response.warnings) : Includes(response.warnings[w], rel)}

FileNodesOf(rel) ==
  {n \in 1..Len(response.fileNodes) :
     response.fileNodes[n].id = rel \/ response.fileNodes[n].path = rel}

(* the import edges of a file: one per import declaration whose specifier  *)
(* the resolver maps to a file of the repository                           *)
ResolvedImportEdges(rel) ==
  {[source |-> rel, target |-> t] :
     t \in {resolver(<<>>, fileSet, tsconfigPaths, rel, Source(rel)[i].source).res :
              i \in {k \in 1..Len(Source(rel)) : Source(rel)[k].type = "ImportDeclaration"}}
           \ {Undefined}}

HasFileEdge(e) ==
  \E n \in 1..Len(response.fileEdges) :
    response.fileEdges[n].source = e.source /\ response.fileEdges[n].target = e.target

(* C11: when analyzeFile fails for a file the run is not failed by it; in  *)
(* the result exactly one warning names that file, the file has no file    *)
(* node, and every other parse target that parses has exactly one file     *)
(* node and the edge of each of its imports that resolves.                 *)
C11_FailureIsolated ==
  /\ (FailedTargets # {} /\ pc # "start") => pc # "failed"
  /\ pc = "done" =>
       /\ response.status = "ok"
       /\ \A rel \in Range(parseTargets) :
            IF rel \in FailedTargets
              THEN /\ Cardinality(WarningsNaming(rel)) = 1
                   /\ FileNodesOf(rel) = {}
              ELSE /\ Cardinality(FileNodesOf(rel)) = 1
                   /\ \A e \in ResolvedImportEdges(rel) : HasFileEdge(e)

C11_Witness ==
  /\ pc = "done"
  /\ files = <<"bad.ts", "src/app.ts">>
  /\ FailedTargets = {"bad.ts"}
  /\ response.warnings[1] = "Failed to analyze bad.ts: Unexpected token"
  /\ Cardinality(FileNodesOf("src/app.ts")) = 1
  /\ ResolvedImportEdges("src/app.ts") = {[source |-> "src/app.ts", target |-> "bad.ts"]}
  /\ HasFileEdge([source |-> "src/app.ts", target |-> "bad.ts"])

(***************************************************************************)
(* Determinism of the result                                               *)
(***************************************************************************)
(* the context after the extractions have settled in the order of          *)
(* parseTargets                                                            *)
RECURSIVE SettledInOrder(_, _)
SettledInOrder(cx, targets) ==
  IF Len(targets) = 0 THEN cx
  ELSE SettledInOrder(
         IF Source(Head(targets)) = SyntaxError
           THEN [cx EXCEPT !.warnings = Append(@, "Failed to analyze " \o Head(targets) \o ": Unexpected token")]
           ELSE [cx EXCEPT !.files = MapSet(@, Head(targets), analyzeFile(Head(targets), Source(Head(targets))))],
         Tail(targets))

(* the result of the run in which the extractions settle in the order of   *)
(* parseTargets and the enrichment changes no edge                         *)
InOrderResponse ==
  buildResponse(
    collectFunctionEdges(
      collectFunctionExports(
        resolveImports([ctx |-> SettledInOrder(EmptyCtx, parseTargets), cache |-> <<>>],
                       fileSet, tsconfigPaths).ctx)))

Graphs(r) == <<r.fileNodes, r.fileEdges, r.functionNodes, r.functionEdges>>

(* C12 as stated: a run in which the enrichment produces no result returns *)
(* the graphs of the run in which the extractions settle in the order of   *)
(* the parse targets: the same nodes, edges and ids in the same order in   *)
(* the emitted lists, whatever order the extractions settled in.  (The     *)
(* in-order run is one of the runs, so two runs agree in every case iff    *)
(* every run agrees with it.)                                              *)
C12_Original ==
  (pc = "done" /\ llm.outcome \in {"null", "thrown"})
    => Graphs(response) = Graphs(InOrderResponse)

(* the graphs as sets: what the runs do agree on *)
GraphSets(r) == <<Range(r.fileNodes), Range(r.fileEdges), Range(r.functionNodes), Range(r.functionEdges)>>

SameGraphsUpToOrder ==
  (pc = "done" /\ llm.outcome \in {"null", "thrown"})
    => GraphSets(response) = GraphSets(InOrderResponse)

(***************************************************************************)
(* Properties of the function records                                      *)
(***************************************************************************)
IsEdgeEndpoint(id) ==
  \E n \in 1..Len(response.functionEdges) :
    response.functionEdges[n].source = id \/ response.functionEdges[n].target = id

(* C13 as stated: a function is a node of the function graph only if it is *)
(* exported or an endpoint of a function edge of the result; a function    *)
(* that is not exported and only calls imports that resolve to no exported *)
(* target is not a node.                                                   *)
C13_Original ==
  pc = "done" =>
    \A n \in 1..Len(response.functionNodes) :
      \/ response.functionNodes[n].exportName # Undefined
      \/ IsEdgeEndpoint(response.functionNodes[n].id)

RecordOf(ref) == ctx.files[ref.file].value.functions[ref.fn]

FunctionRefs ==
  UNION {{[file |-> fi, fn |-> k] : k \in 1..Len(ctx.files[fi].value.functions)} :
           fi \in 1..Len(ctx.files)}

(* C14 as stated: no two distinct declarations, of one file or of two,     *)
(* have FunctionRecords with the same id.  A record's loc is the           *)
(* declaration it was made for.                                            *)
C14_Original ==
  \A a \in FunctionRefs, b \in FunctionRefs :
    RecordOf(a).id = RecordOf(b).id
      => /\ a.file = b.file
         /\ RecordOf(a).loc = RecordOf(b).loc

(***************************************************************************)
(* Directory nodes                                                         *)
(***************************************************************************)
DirectoryNodesOf(d) ==
  {n \in 1..Len(response.fileNodes) :
     response.fileNodes[n].kind = "directory" /\ response.fileNodes[n].path = d}

(* the directories above a file, read off its path *)
AncestorsOf(rel) == {SubSeq(rel, 1, i - 1) : i \in {k \in 1..Len(rel) : Char(rel, k) = "/"}}

(* C15: in the returned file graph every ancestor directory of every       *)
(* scanned file, and the root ".", is the path of exactly one directory    *)
(* node, however many files lie in the directory.                          *)
C15_DirectoriesOnce ==
  pc = "done" =>
    \A rel \in fileSet :
      \A d \in AncestorsOf(rel) \cup {"."} : Cardinality(DirectoryNodesOf(d)) = 1

(* src and the root are shared by both files, src/lib holds one of them *)
C15_Witness ==
  /\ pc = "done"
  /\ files = <<"src/lib/spec.ts", "src/main.ts">>
  /\ AncestorsOf("src/lib/spec.ts") = {"src", "src/lib"}
  /\ \A d \in {".", "src", "src/lib"} : Cardinality(DirectoryNodesOf(d)) = 1
  /\ Cardinality({n \in 1..Len(response.fileNodes) : response.fileNodes[n].kind = "directory"}) = 3

(***************************************************************************)
(* Unresolved imports                                                      *)
(***************************************************************************)
(* the non-empty specifiers of rel's import declarations that resolve to   *)
(* no file                                                                 *)
UnresolvedSpecifiers(rel) ==
  IF rel \notin Range(parseTargets) \/ rel \in FailedTargets THEN {}
  ELSE {Source(rel)[i].source :
          i \in {k \in 1..Len(Source(rel)) :
                   /\ Source(rel)[k].type = "ImportDeclaration"
                   /\ Source(rel)[k].source # ""
                   /\ resolver(<<>>, fileSet, tsconfigPaths, rel, Source(rel)[k].source).res = Undefined}}

(* the items of a list joined with ", " *)
RECURSIVE SplitCommaFrom(_, _, _)
SplitCommaFrom(s, start, i) ==
  IF i > Len(s) THEN <<SubSeq(s, start, Len(s))>>
  ELSE IF i < Len(s) /\ SubSeq(s, i, i + 1) = ", "
    THEN <<SubSeq(s, start, i - 1)>> \o SplitCommaFrom(s, i + 2, i + 2)
  ELSE SplitCommaFrom(s, start, i + 1)

ShortPrefix(file) == "Could not resolve imports in " \o file \o ": "
LongPrefix(file) == "Some imports in " \o file \o " could not be resolved: "

UnresolvedWarningsOf(file) ==
  {w \in 1..Len(response.warnings) :
     StartsWith(response.warnings[w], ShortPrefix(file)) \/ StartsWith(response.warnings[w], LongPrefix(file))}

(* the items listed after the prefix of an unresolved-imports warning *)
ListedItems(file, text) ==
  LET prefix == IF StartsWith(text, ShortPrefix(file)) THEN ShortPrefix(file) ELSE LongPrefix(file)
  IN SplitCommaFrom(text, Len(prefix) + 1, Len(prefix) + 1)

(* C16: once resolveImports has run, a file's unresolved set holds exactly *)
(* its non-empty specifiers that resolve to no file, each once, and a file *)
(* without any has no set; the response has one unresolved-imports warning *)
(* for each file that has a set and none for any other file; the warning   *)
(* lists the first five specifiers at most and ends with the ellipsis      *)
(* exactly when the file has more than five.                               *)
C16_UnresolvedAggregated ==
  /\ pc \notin {"start", "analyze", "failed"} =>
       \A rel \in fileSet :
         /\ MapHas(ctx.unresolved, rel) <=> UnresolvedSpecifiers(rel) # {}
         /\ MapHas(ctx.unresolved, rel) =>
              /\ Range(MapGet(ctx.unresolved, rel)) = UnresolvedSpecifiers(rel)
              /\ Len(MapGet(ctx.unresolved, rel)) = Cardinality(UnresolvedSpecifiers(rel))
  /\ pc = "done" =>
       \A rel \in fileSet :
         IF UnresolvedSpecifiers(rel) = {} THEN UnresolvedWarningsOf(rel) = {}
         ELSE /\ Cardinality(UnresolvedWarningsOf(rel)) = 1
              /\ \A w \in UnresolvedWarningsOf(rel) :
                   LET n == Cardinality(UnresolvedSpecifiers(rel))
                       items == ListedItems(rel, response.warnings[w])
                       shown == Min(5, n)
                   IN /\ Len(items) >= shown
                      /\ SubSeq(items, 1, shown) = SubSeq(MapGet(ctx.unresolved, rel), 1, shown)
                      /\ IF n > 5 THEN Len(items) = 6 /\ items[6] = "..."
                                  ELSE Len(items) = n

(* src/app.ts imports seven files that do not exist besides a repeated and *)
(* an empty specifier; src/util.ts imports nothing                         *)
C16_Witness ==
  /\ pc = "done"
  /\ files = <<"src/app.ts", "src/util.ts">>
  /\ Cardinality(UnresolvedSpecifiers("src/app.ts")) > 5
  /\ UnresolvedWarningsOf("src/util.ts") = {}
  /\ \E w \in UnresolvedWarningsOf("src/app.ts") :
       /\ StartsWith(response.warnings[w], LongPrefix("src/app.ts"))
       /\ Len(ListedItems("src/app.ts", response.warnings[w])) = 6

(***************************************************************************)
(* Failures of the LLM call                                                *)
(***************************************************************************)
FailureWarnings ==
  {w \in 1..Len(response.warnings) : StartsWith(response.warnings[w], "LLM relationship inference failed")}

LLMWarnings == {w \in 1..Len(response.warnings) : StartsWith(response.warnings[w], "LLM")}

EdgeSets(r) == <<Range(r.fileEdges), Range(r.functionEdges)>>

(* C17: a run whose LLM call failed in transport (fetch rejected, status   *)
(* not ok, no content: "thrown") or returned text that could not be parsed *)
(* ("empty") still ends with a result, with the deterministic edges only   *)
(* and with exactly one warning that describes the failure.                *)
C17_Original ==
  (pc = "done" /\ llm.outcome \in {"thrown", "empty"}) =>
    /\ response.status = "ok"
    /\ EdgeSets(response) = EdgeSets(InOrderResponse)
    /\ Cardinality(FailureWarnings) = 1

(* the part that holds: a thrown failure is recovered with one warning *)
ThrownFailureRecovered ==
  (pc = "done" /\ llm.outcome = "thrown") =>
    /\ response.status = "ok"
    /\ EdgeSets(response) = EdgeSets(InOrderResponse)
    /\ Cardinality(FailureWarnings) = 1

(* text that cannot be parsed gives the deterministic edges and no warning *)
(* about the LLM at all                                                    *)
UnparsedTextSilent ==
  (pc = "done" /\ llm.outcome = "empty") =>
    /\ response.status = "ok"
    /\ EdgeSets(response) = EdgeSets(InOrderResponse)
    /\ LLMWarnings = {}

(***************************************************************************)
(* A run without OPENAI_API_KEY                                            *)
(***************************************************************************)
KeyWarning == "Set OPENAI_API_KEY to enable LLM-inferred relationships."

KeyWarnings == {w \in 1..Len(response.warnings) : response.warnings[w] = KeyWarning}

(* C18: without OPENAI_API_KEY no request is ever sent to the LLM, the     *)
(* enrichment step leaves the file and function edges as they are and      *)
(* appends the one informational warning, and the run ends with a result   *)
(* that carries this warning exactly once and no other LLM warning.        *)
C18_NoKeySkipsEnrichment ==
  /\ [](~apiKey =>
          /\ llm.requests = 0
          /\ pc \notin {"awaitLLM", "mergeFileEdges", "mergeFunctionEdges"}
          /\ pc = "done" => /\ response.status = "ok"
                            /\ Cardinality(KeyWarnings) = 1
                            /\ LLMWarnings = {}
                            /\ EdgeSets(response) = EdgeSets(InOrderResponse))
  /\ [][(~apiKey /\ pc = "enrich") =>
          /\ pc' = "unresolved"
          /\ ctx'.fileEdges = ctx.fileEdges
          /\ ctx'.functionEdges = ctx.functionEdges
          /\ ctx'.warnings = Append(ctx.warnings, KeyWarning)
          /\ llm'.requests = 0]_vars

(* a finished run without the key whose graph has file and function edges *)
C18_Witness ==
  /\ pc = "done"
  /\ ~apiKey
  /\ llm.outcome = "null"
  /\ llm.requests = 0
  /\ Len(response.fileEdges) > 0
  /\ Len(response.functionEdges) > 0
  /\ Cardinality(KeyWarnings) = 1

(***************************************************************************)
(* Termination.  The steps of the program itself are taken when they are   *)
(* enabled: a file read settles and a continuation that is ready runs.     *)
(* The reply of the LLM service (EnrichFailed, EnrichAnswered) is in the   *)
(* hands of the service and of the network, and fetch is called without a  *)
(* timeout or an abort signal, so nothing obliges it to happen.            *)
(***************************************************************************)
ProgramStep ==
  \/ Scan
  \/ \E rel \in Range(RepoUniverse) : AnalyzeFileSettled(rel)
  \/ ResolveImports
  \/ CollectFunctionExports
  \/ CollectFunctionEdges
  \/ EnrichSkipped
  \/ EnrichRequested
  \/ \E raw \in LLMFileProposals : MergeFileEdge(raw)
  \/ FileEdgesMerged
  \/ \E raw \in LLMFunctionProposals : MergeFunctionEdge(raw)
  \/ FunctionEdgesMerged
  \/ Respond

SpecLive == Init /\ [][Next]_vars /\ WF_vars(ProgramStep)

(* C19: every run eventually returns, with a response or with the scan's   *)
(* error, even when the LLM service never replies.                         *)
C19_Original == <>(pc \in {"done", "failed"})

(* a run ends unless it is left waiting for the reply to its request *)
ReturnsOrAwaitsReply == <>[](pc \in {"done", "failed", "awaitLLM"})

(* a run that sends no request returns *)
ReturnsWithoutRequest == (~apiKey) ~> (pc \in {"done", "failed"})

(***************************************************************************)
(* Reading the reply of the language model (llm.ts 126-187).               *)
(***************************************************************************)
(* the JSON texts a reply may hold: the schema of the prompt with a file   *)
(* edge, with a function edge, with notes only, with fields of the wrong   *)
(* type, with a brace inside a string, with an object as its last member;  *)
(* a text that breaks off and a text that holds no JSON                    *)
FileEdgePayload ==
  "{\"fileEdges\":[{\"source\":\"src/main.ts\",\"target\":\"src/util.ts\",\"relationship\":\"imports\",\"confidence\":\"high\"}],\"functionEdges\":[],\"notes\":[\"n1\"]}"

FunctionEdgePayload ==
  "{\"fileEdges\":[],\"functionEdges\":[{\"source\":{\"filePath\":\"src/main.ts\",\"symbol\":\"run\"},\"target\":{\"filePath\":\"src/util.ts\",\"symbol\":\"helper\"},\"confidence\":\"low\"}],\"notes\":[]}"

ReplyPayloads == {
  FileEdgePayload,
  FunctionEdgePayload,
  "{\"notes\":[\"n1\"]}",
  "{\"fileEdges\":[{\"source\":\"src/main.ts\",\"target\":7},{\"source\":\"src/util.ts\",\"target\":\"src/main.ts\"}],\"notes\":[\"n1\",2]}",
  "{\"notes\":[\"a}b\"]}",
  "{\"notes\":[\"n1\"],\"usage\":{\"files\":2}}",
  "{\"fileEdges\":[{\"source\":\"src/main.ts\",",
  "no relationships found" }

(* the positions of a JSON text at which a trailing comma can be put: in   *)
(* front of a closing bracket that follows an element, outside strings     *)
CommaPositions(text) ==
  {k \in 2..Len(text) :
     /\ SubSeq(text, k, k) \in {"}", "]"}
     /\ SubSeq(text, k - 1, k - 1) \notin {"{", "[", ","}
     /\ Cardinality({q \in 1..(k - 1) : SubSeq(text, q, q) = "\""}) % 2 = 0}

(* the text with a comma put in front of position k; k = 0 puts none *)
WithTrailingComma(text, k) ==
  IF k = 0 THEN text ELSE SubSeq(text, 1, k - 1) \o "," \o SubSeq(text, k, Len(text))

FenceWrappers == {"fence", "jsonFence", "proseFence"}
Wrappers == {"bare", "prose"} \cup FenceWrappers

(* what the language model puts around the JSON text *)
Wrap(text, wrapper) ==
  CASE wrapper = "bare" -> text
    [] wrapper = "prose" -> "Here is the analysis:\n" \o text \o "\nDone."
    [] wrapper = "fence" -> Fence \o text \o Fence
    [] wrapper = "jsonFence" -> Fence \o "json\n" \o text \o "\n" \o Fence \o "\n"
    [] wrapper = "proseFence" -> "Result:\n\n" \o Fence \o "json\n" \o text \o "\n" \o Fence \o "\nDone."

InitParse ==
  /\ files = <<>>
  /\ directoryEntries = {}
  /\ tsconfigPaths = <<>>
  /\ apiKey = TRUE
  /\ pc = "parse"
  /\ pending = {}
  /\ ctx = EmptyCtx
  /\ candidateCache = <<>>
  /\ llm = NoLLM
  /\ response = NoResponse
  /\ lastResolve = NoResolve
  /\ enhance = NoEnhance
  /\ pool = NoPool
  /\ session = NoSession
  /\ cacheCheck = NoCacheCheck
  /\ rate = NoRate
  /\ \E payload \in ReplyPayloads, wrapper \in Wrappers :
       \E k \in {0} \cup CommaPositions(payload) :
         reply = [NoReply EXCEPT !.stage = "content", !.payload = payload, !.wrapper = wrapper,
                                 !.comma = k,
                                 !.content = Wrap(WithTrailingComma(payload, k), wrapper)]

(* llm.ts 126-163 *)
CleanResponse ==
  /\ pc = "parse"
  /\ reply.stage = "content"
  /\ reply' = [reply EXCEPT !.stage = "cleaned", !.text = cleanResponse(reply.content)]
  /\ UNCHANGED <<files, directoryEntries, tsconfigPaths, apiKey, pc, pending, ctx, candidateCache, llm, response, lastResolve, enhance, pool, session, cacheCheck, rate>>

(* llm.ts 165-168: JSON.parse returns or its exception is caught *)
ParseCleaned ==
  /\ pc = "parse"
  /\ reply.stage = "cleaned"
  /\ LET parsed == JSONParse(reply.text)
     IN reply' = IF parsed.ok THEN [reply EXCEPT !.stage = "parsed", !.parsed = parsed.val]
                 ELSE [reply EXCEPT !.stage = "caught"]
  /\ UNCHANGED <<files, directoryEntries, tsconfigPaths, apiKey, pc, pending, ctx, candidateCache, llm, response, lastResolve, enhance, pool, session, cacheCheck, rate>>

(* whether the fallback finds an object it can parse in the cleaned text *)
PartialParses(text) ==
  With(PartialMatch(text), LAMBDA partialMatch :
    partialMatch # Undefined /\ JSONParse(partialMatch).ok)

(* llm.ts 172-184: the fallback; its own exception ends in the return of   *)
(* the empty result                                                        *)
ParsePartial ==
  /\ pc = "parse"
  /\ reply.stage = "caught"
  /\ reply' = IF PartialParses(reply.text)
                THEN [reply EXCEPT !.stage = "parsed", !.parsed = JSONParse(PartialMatch(reply.text)).val]
                ELSE [reply EXCEPT !.stage = "returned", !.result = EmptyResult]
  /\ UNCHANGED <<files, directoryEntries, tsconfigPaths, apiKey, pc, pending, ctx, candidateCache, llm, response, lastResolve, enhance, pool, session, cacheCheck, rate>>

(* llm.ts 187 *)
NormaliseResult ==
  /\ pc = "parse"
  /\ reply.stage = "parsed"
  /\ reply' = [reply EXCEPT !.stage = "returned", !.result = normaliseResult(reply.parsed)]
  /\ UNCHANGED <<files, directoryEntries, tsconfigPaths, apiKey, pc, pending, ctx, candidateCache, llm, response, lastResolve, enhance, pool, session, cacheCheck, rate>>

NextParse ==
  \/ CleanResponse
  \/ ParseCleaned
  \/ ParsePartial
  \/ NormaliseResult

SpecParse == InitParse /\ [][NextParse]_vars

(* the reply was a JSON text in a markdown fence, with or without a        *)
(* trailing comma                                                          *)
FencedJSON == reply.wrapper \in FenceWrappers /\ JSONParse(reply.payload).ok

(* C20: a reply whose text is malformed JSON raises nothing: a JSON text   *)
(* in a markdown fence, with a trailing comma or without, gives the result *)
(* that the parsed JSON text gives, and a text that neither JSON.parse nor *)
(* the partial-object fallback can parse gives the empty result.           *)
C20_Original ==
  /\ reply.stage # "thrown"
  /\ (reply.stage = "returned" /\ FencedJSON)
       => reply.result = normaliseResult(JSONParse(reply.payload).val)
  /\ (reply.stage = "returned" /\ ~JSONParse(reply.text).ok /\ ~PartialParses(reply.text))
       => reply.result = EmptyResult

(* no step of the reading raises: a reply is on its way to the return or  *)
(* has been returned                                                       *)
ReplyNeverRaises == reply.stage \in {"content", "cleaned", "caught", "parsed", "returned"}

(* a text that cannot be parsed gives the empty result *)
UnparsedGivesEmpty ==
  (reply.stage = "returned" /\ ~JSONParse(reply.text).ok /\ ~PartialParses(reply.text))
    => reply.result = EmptyResult

(* the fence, the prose and the trailing comma change nothing: the result  *)
(* is the one the function gives for the JSON text alone                   *)
SameAsBareText == reply.stage = "returned" => reply.result = parseResponse(reply.payload)

(* a JSON text whose objects are nested no deeper than an edge of          *)
(* fileEdges keeps its content                                             *)
FileEdgesKept ==
  (reply.stage = "returned" /\ reply.payload = FileEdgePayload)
    => reply.result = normaliseResult(JSONParse(FileEdgePayload).val)

(* a fenced reply with a trailing comma has lost the function edge of its  *)
(* JSON text                                                               *)
FunctionEdgeLost ==
  /\ reply.stage = "returned"
  /\ reply.wrapper = "jsonFence"
  /\ reply.comma # 0
  /\ reply.payload = FunctionEdgePayload
  /\ Len(normaliseResult(JSONParse(reply.payload).val).functionEdges) = 1
  /\ reply.result = EmptyResult

(***************************************************************************)
(* enhanceWithLLM (analyzer.ts 705-832): the enrichment of the file graph  *)
(* that analyzeRepository builds.                                          *)
(***************************************************************************)
(* the variables of analyzeRepositoryGraph, of its resolver and of the     *)
(* reading of a reply, which the other functions leave alone               *)
graphVars ==
  <<files, directoryEntries, tsconfigPaths, pc, pending, ctx, candidateCache, llm, response,
    lastResolve, reply>>

GraphIdle ==
  /\ files = <<>>
  /\ directoryEntries = {}
  /\ tsconfigPaths = <<>>
  /\ pc = "idle"
  /\ pending = {}
  /\ ctx = EmptyCtx
  /\ candidateCache = <<>>
  /\ llm = NoLLM
  /\ response = NoResponse
  /\ lastResolve = NoResolve
  /\ reply = NoReply

MaxEnhanceFiles == 7

(* the ids of result.files.nodes: a repository holds the first n of them *)
EnhanceUniverse ==
  <<"src/main.ts", "src/util.ts", "README.md", "src/lib/spec.ts", "src/lib/spec.test.ts",
    "package.json", "src/app.ts", "src/lib/index.ts">>

Edge(id, source, target) == [id |-> id, source |-> source, target |-> target]

(* the edges analyzeCode may have found *)
EnhanceEdges ==
  {<<>>, <<Edge("src/main.ts-src/util.ts", "src/main.ts", "src/util.ts")>>}

(* llmResult.fileEdges *)
EnhanceLLMResults ==
  {<<>>,
   <<[source |-> "src/main.ts", target |-> "src/util.ts"]>>,
   <<[source |-> "src/main.ts", target |-> "src/util.ts"],
     [source |-> "src/util.ts", target |-> "src/main.ts"],
     [source |-> "src/main.ts", target |-> "src/util.ts"]>>}

(* enhancedEdges.push(edge) unless an edge of that id is there *)
pushEdge(edges, edge) ==
  With2(edges, edge, LAMBDA enhancedEdges, e :
    IF \E i \in 1..Len(enhancedEdges) : enhancedEdges[i].id = e.id
      THEN enhancedEdges ELSE Append(enhancedEdges, e))

RECURSIVE pushEdges(_, _, _)
pushEdges(edges, more, k) ==
  IF k > Len(more) THEN edges ELSE pushEdges(pushEdge(edges, more[k]), more, k + 1)

(* analyzer.ts 771-781 *)
llmEdges(fileEdges) ==
  [i \in 1..Len(fileEdges) |->
     Edge("llm-" \o fileEdges[i].source \o "-" \o fileEdges[i].target,
          fileEdges[i].source, fileEdges[i].target)]

(* path.basename(id, path.extname(id)) *)
baseWithoutExt(id) ==
  With(posixBasename(id), LAMBDA base :
    With({i \in 2..Len(base) : Char(base, i) = "."}, LAMBDA dots :
      IF dots = {} THEN base ELSE SubSeq(base, 1, Last(dots) - 1)))

(* analyzer.ts 803-823: the edges the heuristics propose for one pair *)
heuristicEdges(node, otherNode) ==
  With2(<<posixDirname(node), baseWithoutExt(node)>>, <<posixDirname(otherNode), baseWithoutExt(otherNode)>>,
        LAMBDA a, b :
          (IF a[1] = b[1] /\ a[1] # "."
             THEN <<Edge(node \o "-samedir-" \o otherNode, node, otherNode)>> ELSE <<>>)
          \o (IF (Includes(a[2], b[2]) \/ Includes(b[2], a[2])) /\ a[2] # b[2]
                THEN <<Edge(node \o "-similar-" \o otherNode, node, otherNode)>> ELSE <<>>))

(* the pairs i < j of the forEach loops, in their order *)
RECURSIVE heuristicsFrom(_, _, _, _)
heuristicsFrom(edges, nodes, i, j) ==
  IF i > Len(nodes) THEN edges
  ELSE IF j > Len(nodes) THEN heuristicsFrom(edges, nodes, i + 1, i + 2)
  ELSE heuristicsFrom(pushEdges(edges, heuristicEdges(nodes[i], nodes[j]), 1), nodes, i, j + 1)

(* analyzer.ts 798-832 *)
heuristics(edges, nodes) == heuristicsFrom(edges, nodes, 1, 2)

(* the sub-sequence of the nodes whose file can be read *)
validDigests(nodes, unreadable) == SelectSeq(nodes, LAMBDA id : id \notin unreadable)

InitEnhance ==
  /\ GraphIdle
  /\ pool = NoPool
  /\ apiKey \in BOOLEAN
  /\ session = NoSession
  /\ cacheCheck = NoCacheCheck
  /\ rate = NoRate
  /\ \E n \in 0..MaxEnhanceFiles, edges \in EnhanceEdges :
       enhance = [NoEnhance EXCEPT !.stage = "start", !.nodes = SubSeq(EnhanceUniverse, 1, n),
                                   !.edges = IF n >= 2 THEN edges ELSE <<>>]

(* analyzer.ts 709-713: a repository of fewer than five files is returned  *)
(* as it is                                                                *)
EnhanceSkipped ==
  /\ enhance.stage = "start"
  /\ Len(enhance.nodes) < 5
  /\ enhance' = [enhance EXCEPT !.stage = "returned", !.result = enhance.edges]
  /\ UNCHANGED <<graphVars, apiKey, pool, session, cacheCheck, rate>>

(* the digests made whatever the number of files *)
CreateDigests_ungated ==
  /\ enhance.stage = "start"
  /\ \E unreadable \in SUBSET Range(enhance.nodes) :
       enhance' = [enhance EXCEPT !.stage = "infer",
                                  !.digests = validDigests(enhance.nodes, unreadable)]
  /\ UNCHANGED <<graphVars, apiKey, pool, session, cacheCheck, rate>>

(* analyzer.ts 715-759: one digest per file that can be read *)
CreateDigests ==
  /\ enhance.stage = "start"
  /\ Len(enhance.nodes) >= 5
  /\ \E unreadable \in SUBSET Range(enhance.nodes) :
       enhance' = [enhance EXCEPT !.stage = "infer",
                                  !.digests = validDigests(enhance.nodes, unreadable)]
  /\ UNCHANGED <<graphVars, apiKey, pool, session, cacheCheck, rate>>

(* llm.ts 86-89: without a key or without digests inferRelationshipsWithLLM *)
(* returns null, and the heuristics follow                                  *)
InferNull ==
  /\ enhance.stage = "infer"
  /\ ~apiKey \/ Len(enhance.digests) = 0
  /\ enhance' = [enhance EXCEPT !.stage = "heuristics"]
  /\ UNCHANGED <<graphVars, apiKey, pool, session, cacheCheck, rate>>

(* llm.ts 91-114: the request *)
InferRequested ==
  /\ enhance.stage = "infer"
  /\ apiKey /\ Len(enhance.digests) > 0
  /\ enhance' = [enhance EXCEPT !.stage = "awaitLLM", !.requests = @ + 1]
  /\ UNCHANGED <<graphVars, apiKey, pool, session, cacheCheck, rate>>

(* llm.ts 116-124 and analyzer.ts 792-795: the exception is caught *)
InferFailed ==
  /\ enhance.stage = "awaitLLM"
  /\ enhance' = [enhance EXCEPT !.stage = "heuristics"]
  /\ UNCHANGED <<graphVars, apiKey, pool, session, cacheCheck, rate>>

(* analyzer.ts 767-790 *)
InferAnswered ==
  /\ enhance.stage = "awaitLLM"
  /\ \E fileEdges \in EnhanceLLMResults :
       enhance' = [enhance EXCEPT !.stage = "returned", !.apiCallCount = @ + 1,
                                  !.result = pushEdges(enhance.edges, llmEdges(fileEdges), 1)]
  /\ UNCHANGED <<graphVars, apiKey, pool, session, cacheCheck, rate>>

(* analyzer.ts 797-832 *)
EnhanceHeuristics ==
  /\ enhance.stage = "heuristics"
  /\ enhance' = [enhance EXCEPT !.stage = "returned",
                                !.result = heuristics(enhance.edges, enhance.nodes)]
  /\ UNCHANGED <<graphVars, apiKey, pool, session, cacheCheck, rate>>

NextEnhance ==
  \/ EnhanceSkipped
  \/ CreateDigests
  \/ InferNull
  \/ InferRequested
  \/ InferFailed
  \/ InferAnswered
  \/ EnhanceHeuristics

SpecEnhance == InitEnhance /\ [][NextEnhance]_vars

SmallRepositorySkipped ==
  /\ enhance.stage = "returned"
  /\ Len(enhance.nodes) = 4
  /\ Len(enhance.edges) = 1
  /\ enhance.requests = 0

(* analyzeRepositoryGraph: inferRelationshipsWithLLM is called once, and   *)
(* sends its request only with a key and at least one parsed file          *)
EnrichAtMostOnce == llm.requests <= 1 /\ (llm.requests = 1 => apiKey /\ Len(ctx.files) > 0)

(***************************************************************************)
(* The phases of analyzeRepositoryGraph (part_004 160-181).                *)
(***************************************************************************)
(* analyzeFile of rel has ended: with an analysis or with its warning *)
Settled(rel) ==
  \/ MapHas(ctx.files, rel)
  \/ \E w \in 1..Len(ctx.warnings) : StartsWith(ctx.warnings[w], "Failed to analyze " \o rel \o ":")

AllSettled == \A rel \in Range(parseTargets) : Settled(rel)

(* every exported function of every parsed file is in the export index *)
ExportIndexComplete ==
  \A fi \in 1..Len(ctx.files) :
    \A k \in 1..Len(ctx.files[fi].value.functions) :
      LET fn == ctx.files[fi].value.functions[k]
      IN (fn.isExported /\ Truthy(fn.exportName))
           => MapHas(ctx.exportedFunctions, ctx.files[fi].value.path \o ":" \o fn.exportName)

(* the order in which the phases follow one another *)
PhaseOrder ==
  {<<"start", "failed">>, <<"start", "analyze">>, <<"analyze", "exports">>, <<"exports", "edges">>,
   <<"edges", "enrich">>}

(* C22: resolveImports starts only when every per-file extraction has      *)
(* ended, with an analysis or with a failure warning; the export index is  *)
(* built after it and call edges are derived only from the complete export *)
(* index; no file is added and no export is indexed outside its phase.     *)
C22_PhasesAfterJoin ==
  [][/\ (pc \in {"start", "analyze", "exports", "edges"} /\ pc' # pc) => <<pc, pc'>> \in PhaseOrder
     /\ (pc = "analyze" /\ pc' = "exports") => AllSettled /\ pending = {}
     /\ (pc = "edges" /\ pc' = "enrich") => AllSettled /\ ExportIndexComplete
     /\ MapKeys(ctx'.files) # MapKeys(ctx.files) => pc = "analyze" /\ pc' = "analyze"
     /\ ctx'.exportedFunctions # ctx.exportedFunctions => pc = "exports"
     /\ (ctx'.functionEdges # ctx.functionEdges /\ pc \in {"start", "analyze", "exports", "edges"})
          => pc = "edges" /\ ExportIndexComplete]_vars

(* two files, both parsed, their exports indexed and a call edge derived    *)
(* between them                                                            *)
C22_Witness ==
  /\ pc = "enrich"
  /\ Len(parseTargets) = 2
  /\ Len(ctx.files) = 2
  /\ Len(ctx.exportedFunctions) > 0
  /\ Len(ctx.functionEdges) > 0

(* a failed extraction is waited for as well *)
FailureJoined ==
  /\ pc = "exports"
  /\ FailedTargets # {}
  /\ Len(ctx.files) > 0

(***************************************************************************)
(* analyzeCodeFromFiles (llm.ts 1079-1172): the worker pool.  A worker is  *)
(* an async function whose loop holds no await, so the engine runs each    *)
(* worker to its end before the next one starts; the steps below are one   *)
(* claim and one parse of one worker and may follow one another in any     *)
(* order, which contains the order of the engine.                          *)
(***************************************************************************)
MaxPoolFiles == 3

(* Math.min(50, totalFiles) *)
PoolLimit == 50

concurrency(totalFiles) == Min(PoolLimit, totalFiles)

InitPool ==
  /\ GraphIdle
  /\ apiKey = FALSE
  /\ enhance = NoEnhance
  /\ session = NoSession
  /\ cacheCheck = NoCacheCheck
  /\ rate = NoRate
  /\ \E totalFiles \in 0..MaxPoolFiles :
       pool = [NoPool EXCEPT !.stage = "start", !.totalFiles = totalFiles]

(* llm.ts 1090-1106: no file, or the slots and the workers *)
PoolStart ==
  /\ pool.stage = "start"
  /\ pool' = IF pool.totalFiles = 0
               THEN [pool EXCEPT !.stage = "returned"]
               ELSE [pool EXCEPT !.stage = "running",
                                 !.results = [i \in 1..pool.totalFiles |-> "empty"],
                                 !.claimedBy = [i \in 1..pool.totalFiles |-> {}],
                                 !.writtenBy = [i \in 1..pool.totalFiles |-> {}],
                                 !.workers = [w \in 1..concurrency(pool.totalFiles) |->
                                                [at |-> "loop", currentIndex |-> 0]]]
  /\ UNCHANGED <<graphVars, apiKey, enhance, session, cacheCheck, rate>>

(* the claim that leaves the shared counter as it was *)
ClaimIndex_noIncrement(w) ==
  /\ pool.stage = "running"
  /\ w \in DOMAIN pool.workers
  /\ pool.workers[w].at = "loop"
  /\ pool' = IF pool.index >= pool.totalFiles
               THEN [pool EXCEPT !.workers[w].at = "done"]
               ELSE [pool EXCEPT !.workers[w] = [at |-> "parse", currentIndex |-> pool.index],
                                 !.claimedBy[pool.index + 1] = @ \cup {w}]
  /\ UNCHANGED <<graphVars, apiKey, enhance, session, cacheCheck, rate>>

(* llm.ts 1107-1110: const currentIndex = index++; indices count from 0 *)
ClaimIndex(w) ==
  /\ pool.stage = "running"
  /\ w \in DOMAIN pool.workers
  /\ pool.workers[w].at = "loop"
  /\ pool' = IF pool.index >= pool.totalFiles
               THEN [pool EXCEPT !.index = @ + 1, !.workers[w].at = "done"]
               ELSE [pool EXCEPT !.index = @ + 1,
                                 !.workers[w] = [at |-> "parse", currentIndex |-> pool.index],
                                 !.claimedBy[pool.index + 1] = @ \cup {w}]
  /\ UNCHANGED <<graphVars, apiKey, enhance, session, cacheCheck, rate>>

(* llm.ts 1112-1140: parseCodeFile returns or throws, the slot of the      *)
(* claimed index is written, processedCount is counted up                  *)
ParseFile(w) ==
  /\ pool.stage = "running"
  /\ w \in DOMAIN pool.workers
  /\ pool.workers[w].at = "parse"
  /\ \E outcome \in {"success", "failure"} :
       pool' = [pool EXCEPT !.results[pool.workers[w].currentIndex + 1] = outcome,
                            !.writtenBy[pool.workers[w].currentIndex + 1] = @ \cup {w},
                            !.processedCount = @ + 1,
                            !.workers[w].at = "loop"]
  /\ UNCHANGED <<graphVars, apiKey, enhance, session, cacheCheck, rate>>

(* llm.ts 1104 and 1145-1172: Promise.all has resolved, the results are    *)
(* merged in the order of their slots                                      *)
MergeResults ==
  /\ pool.stage = "running"
  /\ \A w \in DOMAIN pool.workers : pool.workers[w].at = "done"
  /\ pool' = [pool EXCEPT !.stage = "returned",
                          !.fileNodes = SelectSeq([i \in 1..pool.totalFiles |-> i],
                                                  LAMBDA i : pool.results[i] = "success")]
  /\ UNCHANGED <<graphVars, apiKey, enhance, session, cacheCheck, rate>>

NextPool ==
  \/ PoolStart
  \/ \E w \in 1..MaxPoolFiles : ClaimIndex(w)
  \/ \E w \in 1..MaxPoolFiles : ParseFile(w)
  \/ MergeResults

SpecPool == InitPool /\ [][NextPool]_vars

(* C23: every file index is claimed by at most one worker, a slot is       *)
(* written only by the worker that claimed its index, and at the merge     *)
(* every index has been claimed, every slot holds a result, processedCount *)
(* is totalFiles and every worker has finished.                            *)
C23_PoolSlots ==
  /\ \A i \in DOMAIN pool.results :
       /\ Cardinality(pool.claimedBy[i]) <= 1
       /\ pool.writtenBy[i] \subseteq pool.claimedBy[i]
       /\ pool.results[i] # "empty" <=> pool.writtenBy[i] # {}
  /\ pool.processedCount = Cardinality({i \in DOMAIN pool.results : pool.results[i] # "empty"})
  /\ pool.fileNodes # <<>> => pool.stage = "returned"
  /\ (pool.stage = "returned" /\ pool.totalFiles > 0) =>
       /\ \A w \in DOMAIN pool.workers : pool.workers[w].at = "done"
       /\ \A i \in DOMAIN pool.results :
            Cardinality(pool.claimedBy[i]) = 1 /\ pool.results[i] \in {"success", "failure"}
       /\ pool.processedCount = pool.totalFiles
       /\ Range(pool.fileNodes) = {i \in DOMAIN pool.results : pool.results[i] = "success"}

(* three files and three workers: the join is over, one parse failed, the  *)
(* other two results are merged                                            *)
C23_Witness ==
  /\ pool.stage = "returned"
  /\ pool.totalFiles = 3
  /\ pool.results[2] = "failure"
  /\ Len(pool.fileNodes) = 2

(* two workers hold claims at the same time *)
TwoWorkersParsing ==
  Cardinality({w \in DOMAIN pool.workers : pool.workers[w].at = "parse"}) >= 2

(***************************************************************************)
(* The records of one traversal (part_004 311-334, 425-564).               *)
(***************************************************************************)
(* the records of the analysis that were registered for the AST node *)
RecordsOfNode(analysis, node) ==
  {k \in 1..Len(analysis.functions) : analysis.functions[k].loc = node}

(* C24: in the analysis of a file every function declaration or literal of *)
(* the AST has at most one FunctionRecord, also when the export visitor    *)
(* and the function visitor both reach it.                                 *)
C24_Original ==
  \A fi \in 1..Len(ctx.files) :
    \A node \in 1..Len(Source(ctx.files[fi].key)) :
      Cardinality(RecordsOfNode(ctx.files[fi].value, node)) <= 1

(* a declaration that only the function visitor reaches has one record *)
PlainDeclarationOnce ==
  \A fi \in 1..Len(ctx.files) :
    LET ast == Source(ctx.files[fi].key)
    IN \A node \in 1..Len(ast) :
         (/\ ast[node].type \in FunctionTypes
          /\ ast[node].name # Undefined
          /\ \A p \in 1..Len(ast) :
               ast[p].type \in {"ExportNamedDeclaration", "ExportDefaultDeclaration"}
                 => ast[p].declaration # node /\ ast[node].parent # p)
           => Cardinality(RecordsOfNode(ctx.files[fi].value, node)) <= 1

(* the exported declaration of src/util.ts has been registered twice *)
RegisteredTwice ==
  \E fi \in 1..Len(ctx.files) :
    \E node \in 1..Len(Source(ctx.files[fi].key)) :
      /\ Source(ctx.files[fi].key)[node].type = "FunctionDeclaration"
      /\ Cardinality(RecordsOfNode(ctx.files[fi].value, node)) = 2

(***************************************************************************)
(* The endpoints of the edges of the response (part_004 186-246).          *)
(***************************************************************************)
FileNodeIds == {response.fileNodes[n].id : n \in 1..Len(response.fileNodes)}

(* C25: every file edge of the response has its source and its target     *)
(* among the file nodes, also when the import resolves to a file that is   *)
(* unsupported or that failed to parse.                                    *)
C25_Original ==
  pc = "done" =>
    \A n \in 1..Len(response.fileEdges) :
      /\ response.fileEdges[n].source \in FileNodeIds
      /\ response.fileEdges[n].target \in FileNodeIds

(* the source of a file edge is a node, and so is a target that was parsed *)
ParsedEndpointsAreNodes ==
  pc = "done" =>
    \A n \in 1..Len(response.fileEdges) :
      /\ response.fileEdges[n].source \in FileNodeIds
      /\ response.fileEdges[n].target \in fileSet
      /\ MapHas(ctx.files, response.fileEdges[n].target) => response.fileEdges[n].target \in FileNodeIds

(* an edge of the response points at a file of the repository that is      *)
(* unsupported                                                             *)
EdgeToUnsupportedFile ==
  /\ pc = "done"
  /\ \E n \in 1..Len(response.fileEdges) :
       /\ extname(response.fileEdges[n].target) \notin Range(SUPPORTED_EXTENSIONS)
       /\ response.fileEdges[n].target \notin FileNodeIds

(* an edge of the response points at a file whose extraction failed *)
EdgeToFailedFile ==
  /\ pc = "done"
  /\ \E n \in 1..Len(response.fileEdges) :
       /\ response.fileEdges[n].target \in FailedTargets
       /\ response.fileEdges[n].target \notin FileNodeIds

FunctionNodeIds == {response.functionNodes[n].id : n \in 1..Len(response.functionNodes)}

(* C26: every function edge of the response, derived from the calls or     *)
(* merged from the LLM, has its source id and its target id among the      *)
(* function nodes.                                                         *)
C26_FunctionEndpointsAreNodes ==
  pc = "done" =>
    \A n \in 1..Len(response.functionEdges) :
      /\ response.functionEdges[n].source \in FunctionNodeIds
      /\ response.functionEdges[n].target \in FunctionNodeIds

(* a response with an edge derived from a call and an edge of the LLM      *)
(* whose source is a function that is not exported                         *)
C26_Witness ==
  /\ pc = "done"
  /\ \E n \in 1..Len(response.functionEdges) : response.functionEdges[n].sourceType = "static"
  /\ \E n \in 1..Len(response.functionEdges) :
       /\ response.functionEdges[n].sourceType = "llm"
       /\ response.functionEdges[n].source = "src/main.ts::local"
  /\ "src/main.ts::local" \in FunctionNodeIds

(***************************************************************************)
(* The memo of createModuleResolver (part_004 811-874).                    *)
(***************************************************************************)
(* what the resolver returns when nothing has been memoized *)
Unmemoized(fromPath, specifier) == resolver(<<>>, fileSet, tsconfigPaths, fromPath, specifier).res

(* C27: whatever calls came before, a call of the memoizing resolver       *)
(* returns what probing the candidates without a memo returns for its      *)
(* fromPath and specifier, every entry of the memo is the result of that   *)
(* probing for its base, and a result that is not undefined is a file of   *)
(* the file set.                                                           *)
C27_MemoIsTransparent ==
  /\ \A i \in 1..Len(candidateCache) :
       candidateCache[i].value = tryCandidates(<<>>, fileSet, candidateCache[i].key).res
  /\ lastResolve.calls > 0 =>
       /\ lastResolve.res = Unmemoized(lastResolve.fromPath, lastResolve.specifier)
       /\ lastResolve.res # Undefined => lastResolve.res \in fileSet

(* the second call asks for the base of the first one under another        *)
(* specifier and is answered from the memo                                 *)
C27_Witness ==
  /\ lastResolve.calls = 2
  /\ lastResolve.specifier = "../a/b"
  /\ lastResolve.sizeBefore = 1
  /\ Len(candidateCache) = 1
  /\ lastResolve.res = "a/b.ts"

(***************************************************************************)
(* The analyze route (app/api/analyze/route.ts).  POST creates the row of  *)
(* the session, awaits its first update and starts analyzeRepository in    *)
(* the background; the progress callback, the final write of .then/.catch  *)
(* and the GET of the polling client all work on that one row.             *)
(*                                                                         *)
(* session.progress, .result, .error   the stored row                      *)
(* session.writes   the progress updates of the callback that have not     *)
(*                  finished: i is the retry counter of the loop, at is    *)
(*                  "update" while prisma's update is awaited and "timer"  *)
(*                  while the delay before a retry runs                    *)
(* session.final    the write of .then or .catch                           *)
(* session.client   the polling page                                       *)
(***************************************************************************)
MaxDelay == 500

progressUpdateInterval == 500

maxRetries == 3

(* the time between two steps of the analysis, in milliseconds *)
Delays == {0, MaxDelay}

(* the reports of analyzeRepository on the path that analyses, in order;   *)
(* the last one is the call before `return enhancedResult`                 *)
ProgressMessages ==
  <<"Fetching repository files...", "Building relationships...", "Finalizing...">>

ErrorMessage == "No code files found in repository"

(* JSON.stringify({ message }) *)
Stringify(message) == "{\"message\":\"" \o message \o "\"}"

Terminal(progress) == progress \in {"completed", "error"}

(* POST up to the start of the analysis: the row is created with           *)
(* 'Starting analysis...', the first update is awaited, its failure is     *)
(* only logged                                                             *)
InitRoute ==
  /\ GraphIdle
  /\ apiKey = FALSE
  /\ enhance = NoEnhance
  /\ pool = NoPool
  /\ cacheCheck = NoCacheCheck
  /\ rate = NoRate
  /\ \E progress \in {"Starting analysis...", Stringify("Initializing analysis...")} :
       session = [NoSession EXCEPT !.stage = "analysing", !.progress = progress,
                                   !.client = "polling"]

(* the callback handed to analyzeRepository, up to its first await *)
onProgress(s, message) ==
  IF s.clock - s.lastProgressUpdate < progressUpdateInterval
    THEN s
    ELSE [s EXCEPT !.lastProgressUpdate = s.clock,
                   !.writes = @ \cup {[progress |-> Stringify(message), i |-> 0, at |-> "update"]}]

(* analyzeRepository reports its next step; the call is not awaited *)
ReportProgress ==
  /\ session.stage = "analysing"
  /\ session.calls < Len(ProgressMessages)
  /\ \E delay \in Delays :
       session' = onProgress([session EXCEPT !.clock = @ + delay, !.calls = @ + 1],
                             ProgressMessages[session.calls + 1])
  /\ UNCHANGED <<graphVars, apiKey, enhance, pool, cacheCheck, rate>>

(* `return enhancedResult` right after the last report; .then issues the   *)
(* final update                                                            *)
AnalysisReturned ==
  /\ session.stage = "analysing"
  /\ session.calls = Len(ProgressMessages)
  /\ session' = [session EXCEPT !.stage = "settled",
                                !.final = [at |-> "update", progress |-> "completed"]]
  /\ UNCHANGED <<graphVars, apiKey, enhance, pool, cacheCheck, rate>>

(* the catch of analyzeRepository reports the error and rethrows; .catch   *)
(* issues the final update                                                 *)
AnalysisThrew ==
  /\ session.stage = "analysing"
  /\ session.calls \in 1..(Len(ProgressMessages) - 1)
  /\ \E delay \in Delays :
       session' = [onProgress([session EXCEPT !.clock = @ + delay], "Error: " \o ErrorMessage)
                     EXCEPT !.stage = "settled",
                            !.final = [at |-> "update", progress |-> "error"]]
  /\ UNCHANGED <<graphVars, apiKey, enhance, pool, cacheCheck, rate>>

(* a progress update succeeds: the row takes its text, the loop ends *)
UpdateProgress(w) ==
  /\ w.at = "update"
  /\ session' = [session EXCEPT !.progress = w.progress, !.writes = @ \ {w}]
  /\ UNCHANGED <<graphVars, apiKey, enhance, pool, cacheCheck, rate>>

(* a progress update fails with P2034: retried after a delay while retries *)
(* are left, given up otherwise                                            *)
UpdateConflict(w) ==
  /\ w.at = "update"
  /\ session' = [session EXCEPT !.writes =
                   IF w.i < maxRetries - 1
                     THEN (@ \ {w}) \cup {[w EXCEPT !.at = "timer"]}
                     ELSE @ \ {w}]
  /\ UNCHANGED <<graphVars, apiKey, enhance, pool, cacheCheck, rate>>

(* the delay is over: the loop goes round and sends the update again *)
RetryUpdate(w) ==
  /\ w.at = "timer"
  /\ session' = [session EXCEPT !.writes = (@ \ {w}) \cup {[w EXCEPT !.at = "update", !.i = @ + 1]}]
  /\ UNCHANGED <<graphVars, apiKey, enhance, pool, cacheCheck, rate>>

(* a progress update fails with another error: logged, the loop ends *)
UpdateFailed(w) ==
  /\ w.at = "update"
  /\ session' = [session EXCEPT !.writes = @ \ {w}]
  /\ UNCHANGED <<graphVars, apiKey, enhance, pool, cacheCheck, rate>>

(* the final update succeeds *)
SaveFinal ==
  /\ session.final.at = "update"
  /\ session' = [session EXCEPT !.progress = session.final.progress,
                                !.result = session.final.progress = "completed",
                                !.error = IF session.final.progress = "error"
                                            THEN ErrorMessage ELSE @,
                                !.final.at = "saved"]
  /\ UNCHANGED <<graphVars, apiKey, enhance, pool, cacheCheck, rate>>

(* the final update fails: logged *)
SaveFinalFailed ==
  /\ session.final.at = "update"
  /\ session' = [session EXCEPT !.final.at = "failed"]
  /\ UNCHANGED <<graphVars, apiKey, enhance, pool, cacheCheck, rate>>

(* GET: the progress of the response is the parsed object when the stored  *)
(* text is JSON of an object with a message, the stored text otherwise     *)
getProgress(progress) ==
  With(JSONParse(progress), LAMBDA parsed :
    IF parsed.ok /\ parsed.val.t = "object" /\ Truthy(StringProperty(parsed.val, "message"))
      THEN [type |-> "object", message |-> StringProperty(parsed.val, "message")]
      ELSE [type |-> "string", message |-> progress])

(* the page polls: it stops on 'completed' and on 'error' and shows the    *)
(* progress otherwise                                                      *)
Poll ==
  /\ session.client = "polling"
  /\ \E progress \in {getProgress(session.progress)} :
       session' = [session EXCEPT
                     !.client = CASE progress = [type |-> "string", message |-> "completed"] -> "loaded"
                                  [] progress = [type |-> "string", message |-> "error"] -> "failed"
                                  [] OTHER -> @,
                     !.shown = IF progress.type = "string" /\ Terminal(progress.message)
                                 THEN "" ELSE progress.message]
  /\ UNCHANGED <<graphVars, apiKey, enhance, pool, cacheCheck, rate>>

(* the poll is not answered with 2xx, or the fetch throws *)
PollFailed ==
  /\ session.client = "polling"
  /\ session' = [session EXCEPT !.client = "failed", !.shown = ""]
  /\ UNCHANGED <<graphVars, apiKey, enhance, pool, cacheCheck, rate>>

NextRoute ==
  \/ ReportProgress
  \/ AnalysisReturned
  \/ AnalysisThrew
  \/ \E w \in session.writes : UpdateProgress(w)
  \/ \E w \in session.writes : UpdateConflict(w)
  \/ \E w \in session.writes : RetryUpdate(w)
  \/ \E w \in session.writes : UpdateFailed(w)
  \/ SaveFinal
  \/ SaveFinalFailed
  \/ Poll
  \/ PollFailed

SpecRoute == InitRoute /\ [][NextRoute]_vars

(* C28: once the stored progress of a session is 'completed' or 'error',   *)
(* no later write changes it to another value, whatever the order of the   *)
(* progress updates of the callback, their retries and the final update    *)
C28_Original == [][Terminal(session.progress) => Terminal(session'.progress)]_vars

(* a progress update that was still out when the final update was saved    *)
(* has overwritten 'completed'; the result is stored, the page keeps       *)
(* polling and nothing is left that would write 'completed' again          *)
CompletedOverwritten ==
  /\ session.final = [at |-> "saved", progress |-> "completed"]
  /\ session.result
  /\ session.progress = Stringify("Finalizing...")
  /\ session.writes = {}
  /\ session.client = "polling"

(* the row becomes final through the final update only, 'completed' comes  *)
(* with the result and 'error' with the error                              *)
TerminalByFinalUpdate ==
  /\ Terminal(session.progress) => session.final = [at |-> "saved", progress |-> session.progress]
  /\ session.result <=> session.final = [at |-> "saved", progress |-> "completed"]
  /\ session.error # "" <=> session.final = [at |-> "saved", progress |-> "error"]

(* with no progress update out, a final row stays final *)
QuietRowStaysTerminal ==
  [][(Terminal(session.progress) /\ session.writes = {}) => Terminal(session'.progress)]_vars

(* the page stops with the graph only when the result is stored *)
LoadedHasResult == session.client = "loaded" => session.result

(* no progress update is sent more than maxRetries times *)
RetriesBounded == \A w \in session.writes : w.i < maxRetries

(***************************************************************************)
(* checkCache and getLatestCommitFromGitHub (lib/analyzer.ts).             *)
(*                                                                         *)
(* cacheCheck.entry   the row of repositoryCache for the url, written at   *)
(*                    time 0                                               *)
(* cacheCheck.now     Date.now(), in milliseconds                          *)
(* cacheCheck.head    the sha GitHub answers for commits/HEAD              *)
(* cacheCheck.memo    the entry of githubCommitCache for the url           *)
(* found, timeSinceLastUpdate, latestCommit, returned: what the running    *)
(* call has read and what it returned                                      *)
(***************************************************************************)
MaxCacheChecks == 2

MaxTicks == 2

ONE_DAY_MS == 24 * 60 * 60 * 1000

SIX_HOURS_MS == 6 * 60 * 60 * 1000

GITHUB_CACHE_TTL == 5 * 60 * 1000

RepoUrls == {"https://github.com/o/r", "https://github.com/o/r.git", "https://gitlab.com/o/r"}

Shas == {"abc", "def"}

(* the commitHash column: null, a plain sha, "gitSHA:contentHash" *)
CommitHashes == {Undefined, "abc", "abc:c1", "def:c1"}

CacheEntries ==
  {[exists |-> FALSE, commitHash |-> Undefined, analysisResult |-> ""]}
    \cup {[exists |-> TRUE, commitHash |-> h, analysisResult |-> "graph"] : h \in CommitHashes}

(* the age of the entry at the first call *)
Ages == {0, SIX_HOURS_MS - 1, SIX_HOURS_MS, ONE_DAY_MS, ONE_DAY_MS + 1}

(* what the request to api.github.com does: answers with the sha, answers  *)
(* 200 without a sha, answers with another status, throws                  *)
ApiOutcomes == {"sha", "no sha", "not ok", "throws"}

NoMemo == [exists |-> FALSE, sha |-> Undefined, timestamp |-> 0]

(* repoUrl.match(/github\.com\/([^\/]+)\/([^\/]+?)(\.git)?$/): the url     *)
(* holds github.com/ followed by an owner and a repository, both without a *)
(* slash, up to its end                                                    *)
matchesGitHub(repoUrl) ==
  \E i \in 1..Len(repoUrl) :
    /\ StartsWith(SubSeq(repoUrl, i, Len(repoUrl)), "github.com/")
    /\ \E parts \in {SplitSlash(SubSeq(repoUrl, i + 11, Len(repoUrl)))} :
         Len(parts) = 2 /\ parts[1] # "" /\ parts[2] # ""

(* getLatestCommitFromGitHub: the sha it returns and the memo it leaves *)
getLatestCommitFromGitHub(memo, repoUrl, now, api, head) ==
  IF memo.exists /\ now - memo.timestamp < GITHUB_CACHE_TTL
    THEN [sha |-> memo.sha, memo |-> memo]
  ELSE IF ~matchesGitHub(repoUrl) \/ api \in {"not ok", "throws"}
    THEN [sha |-> Undefined, memo |-> memo]
  ELSE With(IF api = "sha" THEN head ELSE Undefined, LAMBDA sha :
         [sha |-> sha, memo |-> [exists |-> TRUE, sha |-> sha, timestamp |-> now]])

(* cached.commitHash.includes(':') ? cached.commitHash.split(':')[0] : cached.commitHash *)
storedGitSha(commitHash) ==
  IF Includes(commitHash, ":")
    THEN With(CHOOSE i \in 1..Len(commitHash) :
                /\ Char(commitHash, i) = ":"
                /\ \A j \in 1..(i - 1) : Char(commitHash, j) # ":",
              LAMBDA i : SubSeq(commitHash, 1, i - 1))
    ELSE commitHash

InitCache ==
  /\ GraphIdle
  /\ apiKey = FALSE
  /\ enhance = NoEnhance
  /\ pool = NoPool
  /\ session = NoSession
  /\ rate = NoRate
  /\ \E repoUrl \in RepoUrls, entry \in CacheEntries, now \in Ages, head \in Shas :
       cacheCheck = [NoCacheCheck EXCEPT !.stage = "start", !.repoUrl = repoUrl, !.entry = entry,
                                         !.now = now, !.head = head, !.checks = 1]

(* the call has returned *)
Returned(c, value) == [c EXCEPT !.stage = "returned", !.returned = value]

(* checkCache up to the call of getLatestCommitFromGitHub: the read of the *)
(* row (a failed read is caught at the end), the entry without a commit    *)
(* hash, the entry older than one day                                      *)
FindCached ==
  /\ cacheCheck.stage = "start"
  /\ \E read \in BOOLEAN :
       cacheCheck' =
         IF ~read THEN Returned(cacheCheck, "null")
         ELSE With([cacheCheck EXCEPT !.found = TRUE], LAMBDA c :
           IF ~c.entry.exists \/ ~Truthy(c.entry.commitHash) THEN Returned(c, "null")
           ELSE With([c EXCEPT !.timeSinceLastUpdate = c.now], LAMBDA d :
             IF d.timeSinceLastUpdate > ONE_DAY_MS
               THEN Returned(d, "null")
               ELSE [d EXCEPT !.stage = "lookup"]))
  /\ UNCHANGED <<graphVars, apiKey, enhance, pool, session, rate>>

(* the decision on a six hours old entry taken with <= *)
Decide_sixHoursInclusive(c, latestCommit) ==
  IF ~Truthy(latestCommit)
    THEN IF c.timeSinceLastUpdate <= SIX_HOURS_MS THEN "cached" ELSE "null"
    ELSE IF storedGitSha(c.entry.commitHash) = latestCommit THEN "cached" ELSE "null"

(* checkCache after the lookup: without a latest commit the entry is used  *)
(* when it is less than six hours old, with one when the shas agree        *)
Decide(c, latestCommit) ==
  IF ~Truthy(latestCommit)
    THEN IF c.timeSinceLastUpdate < SIX_HOURS_MS THEN "cached" ELSE "null"
    ELSE IF storedGitSha(c.entry.commitHash) = latestCommit THEN "cached" ELSE "null"

(* the lookup of the latest commit and the rest of checkCache *)
LatestCommit ==
  /\ cacheCheck.stage = "lookup"
  /\ \E api \in ApiOutcomes :
       \E latest \in {getLatestCommitFromGitHub(cacheCheck.memo, cacheCheck.repoUrl,
                                                cacheCheck.now, api, cacheCheck.head)} :
         cacheCheck' = Returned([cacheCheck EXCEPT !.latestCommit = latest.sha,
                                                   !.memo = latest.memo],
                                Decide(cacheCheck, latest.sha))
  /\ UNCHANGED <<graphVars, apiKey, enhance, pool, session, rate>>

(* time passes *)
Tick ==
  /\ cacheCheck.stage \in {"start", "lookup", "returned"}
  /\ cacheCheck.ticks < MaxTicks
  /\ \E d \in {1, GITHUB_CACHE_TTL} :
       cacheCheck' = [cacheCheck EXCEPT !.now = @ + d, !.ticks = @ + 1]
  /\ UNCHANGED <<graphVars, apiKey, enhance, pool, session, rate>>

(* a commit is pushed to the repository *)
Push ==
  /\ cacheCheck.stage \in {"start", "lookup", "returned"}
  /\ \E head \in Shas \ {cacheCheck.head} :
       cacheCheck' = [cacheCheck EXCEPT !.head = head]
  /\ UNCHANGED <<graphVars, apiKey, enhance, pool, session, rate>>

(* the next request for the same url *)
CheckAgain ==
  /\ cacheCheck.stage = "returned"
  /\ cacheCheck.checks < MaxCacheChecks
  /\ cacheCheck' = [cacheCheck EXCEPT !.stage = "start", !.checks = @ + 1, !.found = FALSE,
                                      !.timeSinceLastUpdate = 0, !.latestCommit = Undefined,
                                      !.returned = ""]
  /\ UNCHANGED <<graphVars, apiKey, enhance, pool, session, rate>>

NextCache ==
  \/ FindCached
  \/ LatestCommit
  \/ Tick
  \/ Push
  \/ CheckAgain

SpecCache == InitCache /\ [][NextCache]_vars

(* sha is the git sha of the stored hash: the hash itself, or its part     *)
(* before the first colon                                                  *)
IsGitShaOf(sha, commitHash) ==
  /\ ~Includes(sha, ":")
  /\ \/ commitHash = sha
     \/ StartsWith(commitHash, sha \o ":")

(* C29: checkCache returns the cached result exactly when the row was      *)
(* read, has a commit hash, is at most one day old, and either the latest  *)
(* commit is the stored git sha or there is no latest commit and the row   *)
(* is less than six hours old; otherwise it returns null                   *)
C29_CacheDecision ==
  cacheCheck.stage = "returned" =>
    /\ cacheCheck.returned \in {"cached", "null"}
    /\ cacheCheck.returned = "cached" <=>
         /\ cacheCheck.found
         /\ cacheCheck.entry.exists
         /\ Truthy(cacheCheck.entry.commitHash)
         /\ cacheCheck.timeSinceLastUpdate <= ONE_DAY_MS
         /\ \/ /\ Truthy(cacheCheck.latestCommit)
               /\ IsGitShaOf(cacheCheck.latestCommit, cacheCheck.entry.commitHash)
            \/ /\ ~Truthy(cacheCheck.latestCommit)
               /\ cacheCheck.timeSinceLastUpdate < SIX_HOURS_MS

(* a row exactly one day old whose git sha is the latest commit is served *)
C29_Witness ==
  /\ cacheCheck.stage = "returned"
  /\ cacheCheck.returned = "cached"
  /\ cacheCheck.timeSinceLastUpdate = ONE_DAY_MS
  /\ cacheCheck.entry.commitHash = "abc:c1"
  /\ cacheCheck.latestCommit = "abc"

(* without a latest commit a row of six hours is not served, a younger one is *)
SixHoursRefused ==
  /\ cacheCheck.stage = "returned"
  /\ cacheCheck.returned = "null"
  /\ cacheCheck.found
  /\ ~Truthy(cacheCheck.latestCommit)
  /\ cacheCheck.timeSinceLastUpdate = SIX_HOURS_MS

UnverifiedServed ==
  /\ cacheCheck.stage = "returned"
  /\ cacheCheck.returned = "cached"
  /\ ~Truthy(cacheCheck.latestCommit)
  /\ cacheCheck.timeSinceLastUpdate = SIX_HOURS_MS - 1

(* the latest commit of a call is the memo of an earlier call while it is  *)
(* younger than five minutes: the row is served although the head moved on *)
MemoServed ==
  /\ cacheCheck.stage = "returned"
  /\ cacheCheck.returned = "cached"
  /\ Truthy(cacheCheck.latestCommit)
  /\ cacheCheck.latestCommit # cacheCheck.head
  /\ cacheCheck.now - cacheCheck.memo.timestamp < GITHUB_CACHE_TTL

(* a latest commit that differs from the head comes from the memo *)
LatestIsHeadOrMemo ==
  (cacheCheck.stage = "returned" /\ Truthy(cacheCheck.latestCommit)) =>
    \/ cacheCheck.latestCommit = cacheCheck.head
    \/ cacheCheck.memo = [exists |-> TRUE, sha |-> cacheCheck.latestCommit,
                          timestamp |-> cacheCheck.memo.timestamp]

(***************************************************************************)
(* checkRateLimit and recordRequest (lib/rateLimit.ts) for one signed-in   *)
(* user on one day.  A request calls checkRateLimit and, when it is        *)
(* allowed, recordRequest; every await on prisma is a step, so the         *)
(* requests of the user interleave between their reads and writes.         *)
(*                                                                         *)
(* rate.stats     the row of userDailyStats for today                      *)
(* rate.history   the repositories in userRequestHistory                   *)
(* rate.earlier   the new repositories recorded earlier today              *)
(* rate.created   the repositories whose history row a request created     *)
(* rate.requests  per request: the repository, the position, and what it   *)
(*                has read                                                 *)
(* rate.overlapped, rate.failed: a request started while another was       *)
(* running; a check was answered by the catch                              *)
(***************************************************************************)
MaxRequests == 2

DailyLimit == 10

RateRepos == {"o/r1", "o/r2"}

NoStats == [exists |-> FALSE, newRequestsUsed |-> 0, totalRequests |-> 0]

NoRequest ==
  [repoUrl |-> "", pc |-> "idle", dailyStats |-> NoStats, isNewRepo |-> FALSE, allowed |-> FALSE,
   newRequestsUsed |-> 0, totalRequests |-> 0]

Running(request) == request.pc \notin {"idle", "refused", "done"}

InitRate ==
  /\ GraphIdle
  /\ apiKey = FALSE
  /\ enhance = NoEnhance
  /\ pool = NoPool
  /\ session = NoSession
  /\ cacheCheck = NoCacheCheck
  /\ \E earlier \in {0, DailyLimit - 1, DailyLimit}, exists \in BOOLEAN,
        history \in {{}, {"o/r1"}}, repos \in [1..MaxRequests -> RateRepos] :
       /\ earlier > 0 => exists
       /\ rate = [NoRate EXCEPT
                    !.stats = [exists |-> exists, newRequestsUsed |-> earlier,
                               totalRequests |-> earlier],
                    !.history = history,
                    !.earlier = earlier,
                    !.requests = [r \in 1..MaxRequests |-> [NoRequest EXCEPT !.repoUrl = repos[r]]]]

(* the request arrives *)
StartRequest(r) ==
  /\ rate.requests[r].pc = "idle"
  /\ rate' = [rate EXCEPT !.requests[r].pc = "findStats",
                          !.overlapped = @ \/ \E o \in 1..MaxRequests : Running(rate.requests[o])]
  /\ UNCHANGED <<graphVars, apiKey, enhance, pool, session, cacheCheck>>

(* checkRateLimit: the read of today's stats *)
FindStats(r) ==
  /\ rate.requests[r].pc = "findStats"
  /\ rate' = [rate EXCEPT !.requests[r].dailyStats = rate.stats,
                          !.requests[r].pc = IF rate.stats.exists THEN "findHistory"
                                                                  ELSE "createStats"]
  /\ UNCHANGED <<graphVars, apiKey, enhance, pool, session, cacheCheck>>

(* checkRateLimit: no stats were found, the row is created; when another   *)
(* request has created it in between the create throws, and the catch      *)
(* allows the request                                                      *)
CreateStats(r) ==
  /\ rate.requests[r].pc = "createStats"
  /\ rate' =
       IF rate.stats.exists
         THEN [rate EXCEPT !.requests[r].allowed = TRUE, !.requests[r].pc = "recordHistory",
                           !.failed = TRUE]
         ELSE With([NoStats EXCEPT !.exists = TRUE], LAMBDA created :
                [rate EXCEPT !.stats = created, !.requests[r].dailyStats = created,
                             !.requests[r].pc = "findHistory"])
  /\ UNCHANGED <<graphVars, apiKey, enhance, pool, session, cacheCheck>>

(* checkRateLimit: the read of the history and the answer *)
FindHistory(r) ==
  /\ rate.requests[r].pc = "findHistory"
  /\ \E isNewRepo \in {rate.requests[r].repoUrl \notin rate.history} :
       \E allowed \in {~(isNewRepo /\ rate.requests[r].dailyStats.newRequestsUsed >= DailyLimit)} :
         rate' = [rate EXCEPT !.requests[r].allowed = allowed,
                              !.requests[r].pc = IF allowed THEN "recordHistory" ELSE "refused"]
  /\ UNCHANGED <<graphVars, apiKey, enhance, pool, session, cacheCheck>>

(* checkRateLimit: a read throws, the catch allows the request *)
CheckFailed(r) ==
  /\ rate.requests[r].pc \in {"findStats", "findHistory"}
  /\ rate' = [rate EXCEPT !.requests[r].allowed = TRUE, !.requests[r].pc = "recordHistory",
                          !.failed = TRUE]
  /\ UNCHANGED <<graphVars, apiKey, enhance, pool, session, cacheCheck>>

(* recordRequest: the read of the history *)
RecordHistory(r) ==
  /\ rate.requests[r].pc = "recordHistory"
  /\ rate.requests[r].allowed
  /\ \E isNewRepo \in {rate.requests[r].repoUrl \notin rate.history} :
       rate' = [rate EXCEPT !.requests[r].isNewRepo = isNewRepo,
                            !.requests[r].pc = IF isNewRepo THEN "createHistory" ELSE "currentStats"]
  /\ UNCHANGED <<graphVars, apiKey, enhance, pool, session, cacheCheck>>

(* recordRequest: the history row of a new repository is created; when     *)
(* another request has created it in between the create throws and the     *)
(* catch ends the call                                                     *)
CreateHistory(r) ==
  /\ rate.requests[r].pc = "createHistory"
  /\ rate' =
       IF rate.requests[r].repoUrl \in rate.history
         THEN [rate EXCEPT !.requests[r].pc = "done"]
         ELSE [rate EXCEPT !.history = @ \cup {rate.requests[r].repoUrl},
                           !.created = @ \cup {rate.requests[r].repoUrl},
                           !.requests[r].pc = "currentStats"]
  /\ UNCHANGED <<graphVars, apiKey, enhance, pool, session, cacheCheck>>

(* recordRequest: the read of today's stats and the new counts *)
CurrentStats(r) ==
  /\ rate.requests[r].pc = "currentStats"
  /\ rate' = [rate EXCEPT
                !.requests[r].newRequestsUsed =
                   IF rate.requests[r].isNewRepo THEN rate.stats.newRequestsUsed + 1
                                                 ELSE rate.stats.newRequestsUsed,
                !.requests[r].totalRequests = rate.stats.totalRequests + 1,
                !.requests[r].pc = "upsert"]
  /\ UNCHANGED <<graphVars, apiKey, enhance, pool, session, cacheCheck>>

(* recordRequest: the upsert writes the counts computed from the read *)
UpsertStats(r) ==
  /\ rate.requests[r].pc = "upsert"
  /\ rate' = [rate EXCEPT
                !.stats = IF rate.stats.exists
                            THEN [exists |-> TRUE,
                                  newRequestsUsed |-> rate.requests[r].newRequestsUsed,
                                  totalRequests |-> rate.requests[r].totalRequests]
                            ELSE [exists |-> TRUE,
                                  newRequestsUsed |-> IF rate.requests[r].isNewRepo THEN 1 ELSE 0,
                                  totalRequests |-> 1],
                !.requests[r].pc = "done"]
  /\ UNCHANGED <<graphVars, apiKey, enhance, pool, session, cacheCheck>>

NextRate ==
  \E r \in 1..MaxRequests :
    \/ StartRequest(r)
    \/ FindStats(r)
    \/ CreateStats(r)
    \/ FindHistory(r)
    \/ CheckFailed(r)
    \/ RecordHistory(r)
    \/ CreateHistory(r)
    \/ CurrentStats(r)
    \/ UpsertStats(r)

SpecRate == InitRate /\ [][NextRate]_vars

AllDone == \A r \in 1..MaxRequests : rate.requests[r].pc \in {"refused", "done"}

RecordedToday == rate.earlier + Cardinality(rate.created)

(* C30: with every recordRequest after an allowing checkRateLimit, the     *)
(* day's newRequestsUsed never exceeds 10 under any interleaving of the    *)
(* user's requests, and when the requests are over it is the number of     *)
(* distinct new repositories recorded that day                             *)
C30_Original ==
  /\ rate.stats.newRequestsUsed <= DailyLimit
  /\ AllDone => rate.stats.newRequestsUsed = RecordedToday

(* two requests for two new repositories were both allowed at 9 and both   *)
(* counted: 11 new repositories on the day, no check answered by the catch *)
LimitExceeded ==
  /\ ~rate.failed
  /\ AllDone
  /\ rate.earlier = DailyLimit - 1
  /\ rate.created = RateRepos
  /\ rate.stats.newRequestsUsed = DailyLimit + 1

(* both requests read the same count and wrote it plus one: two new        *)
(* repositories recorded, one counted                                      *)
UpdateLost ==
  /\ ~rate.failed
  /\ AllDone
  /\ rate.created = RateRepos
  /\ rate.stats.newRequestsUsed = rate.earlier + 1

(* requests that do not overlap and whose checks are answered from the     *)
(* database keep the limit and the count                                   *)
SequentialKeepsLimit ==
  (~rate.overlapped /\ ~rate.failed) =>
    /\ rate.stats.newRequestsUsed <= DailyLimit
    /\ AllDone => rate.stats.newRequestsUsed = RecordedToday

(* a request is refused only for a new repository read at the limit, and   *)
(* no repository is counted without its history row                        *)
RefusedAtLimit ==
  /\ rate.created \subseteq rate.history
  /\ \A r \in 1..MaxRequests :
       rate.requests[r].pc = "refused" =>
         rate.requests[r].dailyStats.newRequestsUsed >= DailyLimit

====
